---- MODULE Spec2Model ----
(***************************************************************************)
(* Session orchestration of the issue-automation client: DevinClient       *)
(* (src/devin_client.py) and the status handlers of the web front end      *)
(* (src/web_server.py).                                                    *)
(*                                                                         *)
(* Time is exact: the backoff 1.5^k is the dyadic rational 3^k / 2^k, kept *)
(* as a record [n, d] with d a power of two (these values are exactly      *)
(* representable as Python floats, so float arithmetic is exact here).     *)
(***************************************************************************)
EXTENDS Integers, Sequences, FiniteSets, TLC

VARIABLES
    op,              \* the operation in progress, "none" between calls
    pc,              \* position inside the operation
    issue,           \* issue.number of the call (0 when the call has none)
    session_id,      \* the session polled or created by the call (NoId: none)
    max_wait_time,   \* wait_for_completion's max_wait_time
    backoff,         \* wait_for_completion's backoff
    total_wait,      \* wait_for_completion's total_wait
    sleeps,          \* durations of the asyncio.sleep calls of the current call
    polls,           \* get_session_status requests sent by the current call
    creates,         \* create_session requests sent by the current call
    session,         \* the DevinSession of the latest poll
    outcome,         \* how the current call ended
    result,          \* what the current call returned
    sessions,        \* the sessions created at the agent service
    stage_a_terminal, \* issues whose create-pr session was polled terminal
    runtime_config,  \* web_server.runtime_config
    session_data,    \* get_pr_creation_status: the session of its second poll
    response,        \* the JSON answer of the web handler in progress
    error,           \* the exception the current call raised
    failed_response, \* the service response that made the current call fail
    cache,           \* the files cache/issue_<n>_<kind>.json
    demo_written,    \* the cache keys whose file was written in demo mode
    last_saved,      \* the key and record of the latest save_cached_result
    loaded,          \* what the latest load_cached_result returned
    tasks,           \* the background threads completing a session
    answer,          \* the JSON answer of the latest request to the server
    threads,         \* the positions of two concurrent server threads
    config_key,      \* Config.DEVIN_API_KEY
    sent,            \* the API keys of the requests sent to the agent service
    delivered,       \* the status and payload the agent service delivered
    normalized,      \* the result built from them, or the exception raised
    env_key,         \* os.environ['DEVIN_API_KEY']
    posted,          \* the comment the latest request or task posted to the tracker
    cleared,         \* the latest clear_cache request
    flights          \* the scope sessions of one issue and their background tasks

vars == <<op, pc, issue, session_id, max_wait_time, backoff, total_wait, sleeps,
          polls, creates, session, outcome, result, sessions, stage_a_terminal,
          runtime_config, session_data, response, error, failed_response,
          cache, demo_written, last_saved, loaded, tasks, answer, threads,
          config_key, sent, delivered, normalized, env_key, posted, cleared, flights>>

(* The latest normalization of a session payload *)
normVars == <<delivered, normalized>>

(* The process environment, the tracker and the scope sessions in flight *)
sideVars == <<env_key, posted, cleared, flights>>

(* The exception of the current call and the response behind it *)
errVars == <<error, failed_response>>

(* The state of the server around the result cache *)
serverVars == <<cache, demo_written, last_saved, loaded, tasks, answer, threads,
                config_key, sent>>

(* The state of one client call and of the handlers that wrap it *)
callVars == <<op, pc, issue, session_id, max_wait_time, backoff, total_wait, sleeps,
              polls, creates, session, outcome, result, sessions, stage_a_terminal,
              session_data, response, error, failed_response>>

(* The state of the web front end, which the client operations leave alone *)
webVars == <<runtime_config, session_data, response>>

-----------------------------------------------------------------------------
(* Bounds of the model *)

MaxSmallWait == 6
MaxPolls == 17

(* Program constants *)

DefaultMaxWait == 1800
InitialBackoff == 1
MaxSleep == 30

Issues == {42, 123}

-----------------------------------------------------------------------------
(* Exact dyadic rationals *)

Rat(n, d) == [n |-> n, d |-> d]

FromInt(i) == Rat(i, 1)

RECURSIVE Norm(_)
Norm(r) == IF r.d > 1 /\ r.n % 2 = 0 THEN Norm(Rat(r.n \div 2, r.d \div 2)) ELSE r

RatAdd(a, b) ==
    LET d == IF a.d >= b.d THEN a.d ELSE b.d
    IN  Norm(Rat(a.n * (d \div a.d) + b.n * (d \div b.d), d))

RatLessInt(r, i) == r.n < i * r.d

RatLeq(a, b) == a.n * b.d <= b.n * a.d

(* The largest denominator of a sequence of rationals *)
RECURSIVE MaxDen(_)
MaxDen(s) ==
    IF s = <<>> THEN 1
    ELSE LET m == MaxDen(Tail(s)) IN IF Head(s).d >= m THEN Head(s).d ELSE m

(* The sum of the numerators over the denominator d *)
RECURSIVE NumSum(_, _)
NumSum(s, d) == IF s = <<>> THEN 0 ELSE Head(s).n * (d \div Head(s).d) + NumSum(Tail(s), d)

RatSum(s) == Norm(Rat(NumSum(s, MaxDen(s)), MaxDen(s)))

RECURSIVE Pow(_, _)
Pow(b, k) == IF k = 0 THEN 1 ELSE b * Pow(b, k - 1)

-----------------------------------------------------------------------------
(* Agent service responses *)

Missing == ""

TerminalList == <<"blocked", "stopped", "completed", "suspended">>

StatusTokens == {"blocked", "stopped", "completed", "suspended",
                 "running", "finished", "unknown"}

(* The pairs (status_enum, status) of a status response body: one field    *)
(* present, both missing, or both present with different values.           *)
StatusPairs ==
    {<<e, Missing>> : e \in StatusTokens}
        \cup {<<Missing, s>> : s \in {Missing, "running", "completed"}}
        \cup {<<"running", "completed">>, <<"completed", "running">>}

(* What the body carries under structured_output / output:                 *)
(*   absent      neither field, or a falsy value                           *)
(*   object      a JSON object whose fields have the expected types        *)
(*   bad_fields  a JSON object with a field of an unexpected type          *)
(*   text        a string that is not JSON                                 *)
(*   json_object a string holding the JSON encoding of an object           *)
(*   json_array  a string holding the JSON encoding of an array            *)
(* pull_request_url / message_url: the URL the object gives directly and   *)
(* the one inside its devin_message entries ("" when it has none).         *)
Payload(shape, url, msg) == [shape |-> shape, pull_request_url |-> url, message_url |-> msg]

Payloads ==
    {Payload(s, "", "") : s \in {"absent", "object", "bad_fields", "text",
                                  "json_object", "json_array"}}
        \cup {Payload("object", "pr_a", ""), Payload("object", "", "pr_b")}

(* A response with a status code other than 200 and its body text *)
ErrorAnswer(code, text) ==
    [http |-> code, status_enum |-> Missing, status |-> Missing,
     payload |-> Payload("absent", "", ""), text |-> text]

HttpError == ErrorAnswer(500, "unavailable")

(* No response has made the call fail *)
NoAnswer == ErrorAnswer(0, "")

HttpErrors == {HttpError, ErrorAnswer(401, "unauthorized"), ErrorAnswer(404, "")}

StatusResponses ==
    HttpErrors \cup
    {[http |-> 200, status_enum |-> p[1], status |-> p[2], payload |-> y, text |-> ""] :
        p \in StatusPairs, y \in Payloads}

NoOutput == Payload("none", "", "")

(* A session of the service is identified by what it was created for *)
SessionIds == {<<k, i>> : k \in {"scope", "pr", "summary"}, i \in Issues}

NoId == <<"none", 0>>

NoResponse == [success |-> FALSE, status |-> "", pull_request_url |-> "", error |-> ""]

NoSession == [status |-> Missing, structured_output |-> NoOutput]

(* get_session_status, lines 73-74: status_enum, else status, else "unknown" *)
StatusVal(resp) ==
    IF resp.status_enum # Missing THEN resp.status_enum
    ELSE IF resp.status # Missing THEN resp.status
    ELSE "unknown"

(* get_session_status, lines 75-84: a falsy payload is replaced by the     *)
(* body itself, a string is parsed as JSON and wrapped as text on failure. *)
Structured(resp) ==
    LET y == resp.payload
    IN  CASE y.shape = "absent"      -> Payload("body", y.pull_request_url, y.message_url)
          [] y.shape = "json_object" -> Payload("object", y.pull_request_url, y.message_url)
          [] y.shape = "text"        -> Payload("text", "", "")
          [] OTHER                   -> y

(* get_session_status raises: a non-200 answer (line 64), or a payload that *)
(* is no mapping, which DevinSession.structured_output rejects (line 86).   *)
StatusRaises(resp) ==
    IF resp.http # 200 THEN "service_error"
    ELSE IF Structured(resp).shape = "json_array" THEN "validation_error"
    ELSE "no"

GetSessionStatus(resp) ==
    [status |-> StatusVal(resp), structured_output |-> Structured(resp)]

(* The exceptions of the client. kind is the class of the exception, text *)
(* the parts of its message in order.                                      *)
NoError == [kind |-> "none", text |-> <<>>]

(* The message without the response body *)
ServiceErrorNoBody(prefix, resp) ==
    [kind |-> "Exception", text |-> <<prefix, resp.http, "">>]

(* lines 36-37 and 65-66: Exception(f"{prefix}: {response.status} - {error_text}") *)
ServiceError(prefix, resp) ==
    [kind |-> "Exception", text |-> <<prefix, resp.http, resp.text>>]

(* line 110: Exception(f"Session {session_id} did not complete within ...") *)
TimeoutError(sid, max) ==
    [kind |-> "Exception", text |-> <<"Session did not complete within", sid, max>>]

(* the ValidationError of pydantic, lines 86, 164 and 303 *)
PayloadError == [kind |-> "ValidationError", text |-> <<"validation error">>]

(* What get_session_status raises for a response it does not return *)
StatusError(resp) ==
    IF resp.http # 200 THEN ServiceError("Failed to get session status", resp)
    ELSE PayloadError

(* The responses get_session_status raises for, one per distinct error *)
RaisingResponses ==
    HttpErrors \cup
    {[http |-> 200, status_enum |-> "completed", status |-> Missing,
      payload |-> Payload("json_array", "", ""), text |-> ""]}

(* The outcomes of one get_session_status request over all responses *)
StatusErrors == {StatusRaises(resp) : resp \in StatusResponses} \ {"no"}

PolledSessions ==
    {GetSessionStatus(resp) : resp \in {r \in StatusResponses : StatusRaises(r) = "no"}}

-----------------------------------------------------------------------------
(* The result cache: records, their JSON text and the cache files *)

Kinds == {"scope", "scope_2a", "scope_2b", "complete"}

(* cache/issue_{issue_number}_{result_type}.json *)
CacheKeys == Issues \X Kinds

(* The values of a record's fields, by their Python type. A string-valued  *)
(* Enum member (ConfidenceLevel) is a str; nan is a float.                  *)
Str(s) == [t |-> "str", v |-> s]

Enum(s) == [t |-> "enum", v |-> s]

Float(s) == [t |-> "float", v |-> s]

Absent == [t |-> "absent", v |-> ""]

(* json.dump of a value: an Enum member is written as its string, a float  *)
(* as a number, nan as the token NaN.                                       *)
Encode(x) ==
    CASE x.t \in {"str", "enum"} -> [t |-> "json_string", v |-> x.v]
      [] x.t = "float"           -> [t |-> "json_number", v |-> x.v]
      [] OTHER                   -> x

(* json.load of a value: every string comes back as a plain str *)
Decode(j) ==
    CASE j.t = "json_string" -> Str(j.v)
      [] j.t = "json_number" -> Float(j.v)
      [] OTHER               -> j

(* Python's == on two values: a str-Enum member equals its string, nan     *)
(* equals nothing.                                                          *)
PyEq(a, b) ==
    \/ a.t \in {"str", "enum"} /\ b.t \in {"str", "enum"} /\ a.v = b.v
    \/ a.t = "float" /\ b.t = "float" /\ a.v = b.v /\ a.v # "nan"
    \/ a.t = "absent" /\ b.t = "absent"

(* A result record (a dict): the fields the handlers read *)
Record(sid, complexity, score, level, comment, err) ==
    [session_id |-> sid, complexity_assessment |-> complexity,
     confidence_score |-> score, confidence_level |-> level,
     comment_posted |-> comment, error |-> err]

(* The empty dict *)
EmptyRecord == Record(Absent, Absent, Absent, Absent, Absent, Absent)

(* == on two dicts *)
RecEq(a, b) == \A f \in DOMAIN a : PyEq(a[f], b[f])

HasNaN(r) == \E f \in DOMAIN r : r[f] = Float("nan")

(* What load_cached_result returns: None, or the dict read *)
None == [found |-> FALSE, rec |-> EmptyRecord]

Some(r) == [found |-> TRUE, rec |-> r]

(* if cached_result: None and the empty dict are both false *)
Truthy(x) == x.found /\ x.rec # EmptyRecord

DumpRecord(r) == [f \in DOMAIN r |-> Encode(r[f])]

LoadJson(j) == [f \in DOMAIN j |-> Decode(j[f])]

(* The JSON text of a record is written in blocks; a record with a         *)
(* comment_posted entry is longer than one without.                         *)
Size(j) == IF j.comment_posted.t = "absent" THEN 1 ELSE 2

Text(j) == [i \in 1 .. Size(j) |-> [json |-> j, part |-> i]]

NoFile == [exists |-> FALSE, text |-> <<>>]

(* json.load(f): the text of exactly one record, anything else raises *)
Parse(text) ==
    IF text # <<>> /\ text = Text(text[1].json)
    THEN Some(LoadJson(text[1].json))
    ELSE None

(* load_cached_result, lines 201-210 *)
LoadCachedResult(c, key) == IF c[key].exists THEN Parse(c[key].text) ELSE None

(* A save that leaves an existing file as it is *)
SaveKeepsFirst(c, key, r) ==
    IF c[key].exists THEN c
    ELSE [c EXCEPT ![key] = [exists |-> TRUE, text |-> Text(DumpRecord(r))]]

(* save_cached_result, lines 212-220, with no other thread in between *)
SaveCachedResult(c, key, r) ==
    [c EXCEPT ![key] = [exists |-> TRUE, text |-> Text(DumpRecord(r))]]

(* The result types of a clear request as the body gives them *)
ResultTypesAsGiven(result_types) == result_types.types

(* line 1447: data.get('result_types', ['scope', 'complete']) *)
ResultTypes(result_types) ==
    IF result_types.given THEN result_types.types ELSE {"scope", "complete"}

(* clear_cache, lines 1451-1464: with issue numbers, os.remove of the file *)
(* of each (issue_number, result_type); without, of every .json file.       *)
ClearCache(c, issue_numbers, result_types) ==
    [k \in DOMAIN c |->
        IF issue_numbers = {}
        THEN NoFile
        ELSE IF k[1] \in issue_numbers /\ k[2] \in ResultTypes(result_types)
        THEN NoFile
        ELSE c[k]]

DemoComplexity == "Medium complexity - requires OAuth integration and frontend changes"

MarkerComplexity == "Medium complexity - requires understanding of existing codebase"

(* Session ids are written with N for the issue number they end with.      *)
(* DemoData.get_sample_scope_result, demo.py lines 173-184                  *)
DemoScopeRecord(i) ==
    Record(Str("demo_session_N"), Str(DemoComplexity), Float("0.85"),
           Enum("high"), Absent, Absent)

(* DemoData.get_sample_completion_result, demo.py lines 259-275 *)
DemoCompletionRecord(i) ==
    Record(Str("demo_completion_N"), Str("Medium complexity implementation"),
           Float("0.85"), Enum("high"), Absent, Absent)

(* the demo dicts of scope_issue_2a and scope_issue_2b, lines 362-368, 637-643 *)
DemoStepRecord(kind, i) ==
    Record(Str(IF kind = "scope_2a" THEN "demo-2a-N" ELSE "demo-2b-N"),
           IF kind = "scope_2a" THEN Str("Medium complexity - code understanding required")
                                ELSE Absent,
           IF kind = "scope_2a" THEN Float("0.6") ELSE Absent, Absent, Absent, Absent)

(* The confidence the agent reports in its payload: a number, or the text  *)
(* "nan", which float() accepts.                                            *)
AgentScores == {"0.85", "nan"}

(* The record a background task builds from the payload of a finished      *)
(* session: IssueScopeResult(...).model_dump() for scope, the payload with  *)
(* the session id added for scope_2a and scope_2b.                          *)
LiveRecord(kind, sid, score) ==
    Record(Str(sid), Str("Low complexity"), Float(score),
           IF kind = "scope" THEN Enum(IF score = "nan" THEN "low" ELSE "high") ELSE Absent,
           Absent, Absent)

(* result_dict['comment_posted'] = comment_result *)
WithComment(r) == [r EXCEPT !.comment_posted = Str("posted")]

(* lines 1285-1289: the dict written when the scope_2a / scope_2b wait fails *)
ErrorRecord(sid, text) ==
    Record(Str(sid), Absent, Absent, Absent, Absent, Str(text))

(* The threads of the server: request handlers and background tasks *)
Threads == {1, 2}

(* os.environ.get('DEVIN_API_KEY') is None *)
NoEnv == "<unset>"

NoKey == <<0, "">>

(* A thread outside save_cached_result and get_devin_client *)
IdleThread ==
    [pc |-> "idle", key |-> NoKey, rec |-> EmptyRecord, pos |-> 0,
     api_key |-> "", original |-> "", original_env |-> NoEnv, configured |-> ""]

(* Ghost: what the latest request of a caching handler, or the latest       *)
(* background task, did. hit is what load_cached_result returned for its    *)
(* key, value the record of the answer, cached the answer's cached flag,    *)
(* created whether an agent session was created, saved whether the cache    *)
(* was written, stale whether the entry read was written in demo mode,      *)
(* failed whether the wait of a background task raised.                     *)
Answer(handler, i, kind, live, hit, cached, value, created, saved, stale, failed) ==
    [handler |-> handler, issue |-> i, kind |-> kind, live |-> live, hit |-> hit,
     cached |-> cached, value |-> value, created |-> created, saved |-> saved,
     stale |-> stale, failed |-> failed]

NoRequest == Answer("none", 0, "", FALSE, None, FALSE, None, FALSE, FALSE, FALSE, FALSE)

(* The kinds a background task is started for *)
TaskKinds == {"scope", "scope_2a", "scope_2b"}

NoTasks == [k \in TaskKinds |-> "none"]

(* Ghost: the record handed to the latest save of each key, and whether    *)
(* that save replaced an earlier one.                                       *)
NoSave == [k \in CacheKeys |-> [found |-> FALSE, rec |-> EmptyRecord, replaced |-> FALSE]]

NoLoad == [key |-> NoKey, value |-> None]

(* save_cached_result(issue_number, result_type, result_data) run to its   *)
(* end by one thread.                                                       *)
Save(key, r) ==
    /\ cache' = SaveCachedResult(cache, key, r)
    /\ last_saved' = [last_saved EXCEPT
                         ![key] = [found |-> TRUE, rec |-> r, replaced |-> cache[key].exists]]

-----------------------------------------------------------------------------
(* Session payloads and their normalization into result records.           *)
(*                                                                         *)
(* A value is what response.json() yields: None (also what dict.get gives   *)
(* for a missing key), a number (in hundredths), nan, a string, a list of   *)
(* strings, a bool or an object. A string is plain text, the text of a      *)
(* number, or the JSON text of a value.                                     *)

JNone == [t |-> "none"]

JNum(h) == [t |-> "num", h |-> h]

JNaN == [t |-> "nan"]

JStr(s) == [t |-> "str", s |-> s]

JNumStr(h) == [t |-> "numstr", h |-> h]

JList(items) == [t |-> "list", items |-> items]

JBool(b) == [t |-> "bool", b |-> b]

(* json.dumps(x) as a string value *)
JsonText(x) == [t |-> "jsontext", of |-> x]

(* The keys the normalizers read *)
Fields ==
    {"confidence_score", "confidence", "confidence_level", "complexity_assessment",
     "complexity", "estimated_effort", "effort", "required_skills", "skills", "action_plan",
     "plan", "risks", "completion_summary", "summary", "files_modified", "files", "success",
     "status", "status_enum", "text"}

(* A dict with the keys of f; every other key is missing *)
JObj(f) == [t |-> "obj", f |-> [k \in Fields |-> IF k \in DOMAIN f THEN f[k] ELSE JNone]]

NoKeys == [k \in {} |-> JNone]

EmptyObj == JObj(NoKeys)

IsStr(x) == x.t \in {"str", "numstr", "jsontext"}

IsList(x) == x.t = "list"

IsObj(x) == x.t = "obj"

(* not x *)
Falsy(x) ==
    CASE x.t = "none" -> TRUE
      [] x.t = "num"  -> x.h = 0
      [] x.t = "str"  -> x.s = ""
      [] x.t = "list" -> x.items = <<>>
      [] x.t = "bool" -> ~x.b
      [] x.t = "obj"  -> x = EmptyObj
      [] OTHER        -> FALSE

(* The second operand, whatever the first is *)
OrDefault(a, b) == b

(* a or b *)
Or(a, b) == IF Falsy(a) THEN b ELSE a

(* output.get(key) *)
Get(output, key) == output.f[key]

(* json.loads(s) of a string: the value, or a failure for plain text *)
JsonLoads(s) ==
    CASE s.t = "jsontext" -> [ok |-> TRUE, value |-> s.of]
      [] s.t = "numstr"   -> [ok |-> TRUE, value |-> JNum(s.h)]
      [] OTHER            -> [ok |-> FALSE, value |-> JNone]

(* The body of a status response of a session in the given status, as far  *)
(* as the normalizers read it, without its structured_output / output.      *)
Body(status) == JObj([status_enum |-> JStr(status)])

(* get_session_status, lines 75-84: what becomes structured_output *)
StructuredOutput(payload, status) ==
    IF Falsy(payload) THEN Body(status)
    ELSE IF IsStr(payload)
         THEN IF JsonLoads(payload).ok THEN JsonLoads(payload).value
              ELSE JObj([text |-> payload])
    ELSE payload

(* DevinSession.structured_output: Optional[Dict[str, Any]], models.py:62 *)
SessionValid(structured) == structured = JNone \/ IsObj(structured)

(* lines 144-149: output = completed_session.structured_output or {} *)
OutputOf(structured) == Or(structured, EmptyObj)

(* lines 151 and 290: cs_raw *)
CsRaw(output) ==
    Or(Or(Get(output, "confidence_score"), Get(output, "confidence")), JNum(50))

(* lines 152-155: float(cs_raw), 0.5 when float raises *)
ToFloat(x) ==
    CASE x.t \in {"num", "nan"}       -> x
      [] x.t = "numstr"               -> JNum(x.h)
      [] x.t = "str" /\ x.s = "nan"   -> JNaN
      [] x.t = "bool"                 -> JNum(IF x.b THEN 100 ELSE 0)
      [] OTHER                        -> JNum(50)

(* x >= bound for a float x and a bound in hundredths: False for nan *)
AtLeast(x, bound) == x.t = "num" /\ x.h >= bound

(* A classification with the upper threshold taken strictly *)
InlineLevelStrict(score) ==
    IF score.t = "num" /\ score.h > 80 THEN "high"
    ELSE IF AtLeast(score, 50) THEN "medium"
    ELSE "low"

(* devin_client.py lines 157-162 and 296-301, web_server.py 1153-1158 and *)
(* 1229-1234                                                                *)
InlineLevel(score) ==
    IF AtLeast(score, 80) THEN "high"
    ELSE IF AtLeast(score, 50) THEN "medium"
    ELSE "low"

(* utils.calculate_confidence_level, lines 38-45 *)
CalculateConfidenceLevel(score) ==
    IF AtLeast(score, 80) THEN "high"
    ELSE IF AtLeast(score, 50) THEN "medium"
    ELSE "low"

(* The fields of IssueScopeResult and TaskCompletionResult the claims are  *)
(* about (models.py lines 27-55)                                            *)
ResultFields ==
    {"status", "completion_summary", "files_modified", "success", "confidence_score",
     "confidence_level", "complexity_assessment", "estimated_effort", "required_skills",
     "action_plan", "risks"}

(* A result record of the given kind; a field f does not name is not part  *)
(* of that kind of record.                                                  *)
Result(kind, f) ==
    [raised |-> "no", kind |-> kind,
     f |-> [k \in ResultFields |-> IF k \in DOMAIN f THEN f[k] ELSE JNone]]

(* No record: the exception that ended the normalization *)
Raised(kind, exception) ==
    [raised |-> exception, kind |-> kind, f |-> [k \in ResultFields |-> JNone]]

(* pydantic's check of a str field and of a List[str] field *)
ValidFields(r, strs, lists) ==
    /\ \A k \in strs : IsStr(r.f[k])
    /\ \A k \in lists : IsList(r.f[k])

Validated(r, strs, lists) ==
    IF ValidFields(r, strs, lists) THEN r ELSE Raised(r.kind, "ValidationError")

(* DevinClient.scope_issue, lines 151-175: IssueScopeResult(...) *)
ScopeResult(output) ==
    LET score == ToFloat(CsRaw(output))
    IN  Result("scope",
          [confidence_score |-> score,
           confidence_level |-> JStr(InlineLevel(score)),
           complexity_assessment |->
               Or(Or(Get(output, "complexity_assessment"), Get(output, "complexity")),
                  JStr("Analysis pending")),
           estimated_effort |->
               Or(Or(Get(output, "estimated_effort"), Get(output, "effort")),
                  JStr("Effort estimation pending")),
           required_skills |->
               Or(Or(Get(output, "required_skills"), Get(output, "skills")),
                  JList(<<"General development skills">>)),
           action_plan |->
               Or(Or(Get(output, "action_plan"), Get(output, "plan")),
                  JList(<<"Analysis and planning required">>)),
           risks |-> Or(Get(output, "risks"), JList(<<"Standard implementation risks">>))])

ScopeStrs == {"complexity_assessment", "estimated_effort"}

ListFields == {"required_skills", "action_plan", "risks"}

(* DevinClient.scope_issue from the payload of the terminal poll on,       *)
(* lines 141-175 with get_session_status lines 75-93                        *)
NormalizeScope(payload, status) ==
    LET structured == StructuredOutput(payload, status)
    IN  IF ~SessionValid(structured) THEN Raised("scope", "ValidationError")
        ELSE Validated(ScopeResult(OutputOf(structured)), ScopeStrs, ListFields)

(* web_server.py lines 1212-1248: the scope record of the background task *)
WebScopeResult(output) ==
    LET score == ToFloat(CsRaw(output))
    IN  Result("scope",
          [confidence_score |-> score,
           confidence_level |-> JStr(InlineLevel(score)),
           complexity_assessment |->
               Or(Or(Get(output, "complexity_assessment"), Get(output, "complexity")),
                  JStr("Unknown complexity")),
           estimated_effort |->
               Or(Or(Get(output, "estimated_effort"), Get(output, "effort")),
                  JStr("Unknown effort")),
           required_skills |->
               Or(Or(Get(output, "required_skills"), Get(output, "skills")), JList(<<>>)),
           action_plan |->
               Or(Or(Get(output, "action_plan"), Get(output, "plan")), JList(<<>>)),
           risks |-> Or(Get(output, "risks"), JList(<<>>))])

NormalizeWebScope(payload, status) ==
    LET structured == StructuredOutput(payload, status)
    IN  IF ~SessionValid(structured) THEN Raised("scope", "ValidationError")
        ELSE Validated(WebScopeResult(OutputOf(structured)), ScopeStrs, ListFields)

(* generate_summary, lines 270-288: the record synthesized for an empty    *)
(* output of a session that ended well                                      *)
SuccessLike == {"suspended", "completed", "finished"}

FallbackOutput ==
    JObj([status |-> JStr("completed"),
          completion_summary |-> JStr("Successfully completed issue"),
          files_modified |-> JList(<<>>),
          success |-> JBool(TRUE),
          confidence_score |-> JNum(80),
          confidence_level |-> JStr("high"),
          complexity_assessment |-> JStr("Successfully analyzed and completed the issue"),
          required_skills |-> JList(<<"Python", "Software Development">>),
          action_plan |-> JList(<<"Analyzed the GitHub issue requirements",
                                  "Implemented the necessary code changes",
                                  "Created pull request with the solution">>),
          risks |-> JList(<<"Standard implementation risks">>)])

WithFallback(output, status) ==
    IF Falsy(output) /\ status \in SuccessLike THEN FallbackOutput ELSE output

(* devin_client.py line 306 *)
SummaryOf(output) ==
    Or(Or(Get(output, "completion_summary"), Get(output, "summary")),
       JStr("No summary available"))

(* generate_summary, lines 290-320: TaskCompletionResult(...) *)
CompletionResult(output) ==
    LET score == ToFloat(CsRaw(output))
    IN  Result("completion",
          [status |-> Or(Get(output, "status"), JStr("unknown")),
           completion_summary |-> SummaryOf(output),
           files_modified |-> Or(Or(Get(output, "files_modified"), Get(output, "files")),
                                 JList(<<>>)),
           success |-> JBool(~Falsy(Get(output, "success"))),
           confidence_score |-> score,
           confidence_level |-> JStr(InlineLevel(score)),
           complexity_assessment |->
               Or(Or(Get(output, "complexity_assessment"), Get(output, "complexity")),
                  JStr("Unknown complexity")),
           required_skills |->
               Or(Or(Get(output, "required_skills"), Get(output, "skills")), JList(<<>>)),
           action_plan |->
               Or(Or(Get(output, "action_plan"), Get(output, "plan")), JList(<<>>)),
           risks |-> Or(Get(output, "risks"), JList(<<>>))])

CompletionStrs == {"status", "completion_summary", "complexity_assessment"}

CompletionLists == ListFields \cup {"files_modified"}

(* DevinClient.generate_summary from the payload of the terminal poll on,  *)
(* lines 261-320                                                            *)
NormalizeSummary(payload, status) ==
    LET structured == StructuredOutput(payload, status)
    IN  IF ~SessionValid(structured) THEN Raised("completion", "ValidationError")
        ELSE Validated(CompletionResult(WithFallback(OutputOf(structured), status)),
                       CompletionStrs, CompletionLists)

(* get_summary_generation_status, web_server.py lines 1134-1175: a plain   *)
(* dict, built for the statuses completed, stopped and blocked; success is  *)
(* True when the payload has no such key.                                   *)
SummaryStatusResult(output) ==
    LET score == ToFloat(CsRaw(output))
    IN  Result("completion",
          [status |-> Or(Get(output, "status"), JStr("completed")),
           completion_summary |-> Or(Get(output, "completion_summary"),
                                     JStr("Summary generated successfully")),
           files_modified |-> Or(Get(output, "files_modified"),
                                 JList(<<"Files modified as per implementation">>)),
           success |-> JBool(Get(output, "success") = JNone \/ ~Falsy(Get(output, "success"))),
           confidence_score |-> score,
           confidence_level |-> JStr(InlineLevel(score)),
           complexity_assessment |-> Or(Get(output, "complexity_assessment"),
                                        JStr("Standard complexity implementation")),
           required_skills |-> Or(Get(output, "required_skills"),
                                  JList(<<"Software development", "Code implementation">>)),
           action_plan |-> Or(Get(output, "action_plan"),
                              JList(<<"Implementation completed as planned">>)),
           risks |-> Or(Get(output, "risks"), JList(<<"Standard implementation risks">>))])

NormalizeSummaryStatus(payload, status) ==
    LET structured == StructuredOutput(payload, status)
    IN  IF ~SessionValid(structured) THEN Raised("completion", "ValidationError")
        ELSE IF status \in {"completed", "stopped", "blocked"}
        THEN SummaryStatusResult(OutputOf(structured))
        ELSE Raised("completion", "no result")

(* complete_scope_2a_session, web_server.py lines 1267-1290: the payload   *)
(* itself is the record; without a payload the task reads an attribute      *)
(* DevinSession does not have, and the handler stores an error record.      *)
NormalizeScopeStep(payload, status) ==
    LET structured == StructuredOutput(payload, status)
    IN  IF ~SessionValid(structured) THEN Raised("scope", "ValidationError")
        ELSE IF Falsy(structured) THEN Raised("scope", "AttributeError")
        ELSE Result("scope", [k \in ResultFields |-> Get(structured, k)])

(* The payloads delivered. The objects vary one group of keys at a time,   *)
(* over an otherwise empty object and over a typical one.                   *)
ScoreValues ==
    {JNone, JNum(0), JNum(30), JNum(50), JNum(80), JNum(120), JNum(0 - 10), JNaN,
     JNumStr(40), JStr("n/a")}

ScoreKeys ==
    {[confidence_score |-> a, confidence |-> b, confidence_level |-> c] :
        a \in ScoreValues, b \in {JNone, JNum(40), JNum(90)},
        c \in {JNone, JStr("high"), JStr("low")}}

SkillKeys ==
    {[required_skills |-> a, skills |-> b] :
        a \in {JNone, JList(<<>>), JList(<<"python", "sql">>), JStr("python")},
        b \in {JNone, JList(<<"go">>)}}

PlanKeys ==
    {[action_plan |-> a, plan |-> b] :
        a \in {JNone, JList(<<>>), JList(<<"a", "b">>), JList(<<"b", "a">>)},
        b \in {JNone, JList(<<"c">>)}}

SummaryKeys ==
    {[completion_summary |-> a, summary |-> b] :
        a \in {JNone, JStr(""), JStr("Done")}, b \in {JNone, JStr("Short")}}

OtherKeys ==
    {[complexity_assessment |-> a, estimated_effort |-> b, risks |-> c, success |-> d] :
        a \in {JNone, JStr("Low complexity"), JNum(3)},
        b \in {JNone, JStr("3-5 days")},
        c \in {JNone, JList(<<"r1">>)},
        d \in {JNone, JBool(TRUE), JBool(FALSE)}}

TypicalKeys ==
    [confidence_score |-> JNum(85), complexity_assessment |-> JStr("Low complexity"),
     estimated_effort |-> JStr("3-5 days"), required_skills |-> JList(<<"python">>),
     action_plan |-> JList(<<"a", "b">>), risks |-> JList(<<"r1">>),
     completion_summary |-> JStr("Done"), success |-> JBool(TRUE)]

PayloadObjects ==
    {JObj(keys @@ base) :
        keys \in ScoreKeys \cup SkillKeys \cup PlanKeys \cup SummaryKeys \cup OtherKeys,
        base \in {NoKeys, TypicalKeys}}

NonJsonText == JStr("All good, done.")

(* Payloads that are no object: nothing, the empty string, plain text, the *)
(* JSON text of an array, of a number and of null, and an array.            *)
OddPayloads ==
    {JNone, JStr(""), NonJsonText, JsonText(JList(<<"a">>)), JNumStr(40),
     JsonText(JNone), JList(<<"a">>)}

DeliveredPayloads ==
    PayloadObjects \cup {JsonText(o) : o \in PayloadObjects} \cup OddPayloads

(* The statuses wait_for_completion returns with *)
ReturnedStatuses == {TerminalList[k] : k \in DOMAIN TerminalList}

NoDelivery == [op |-> "none", status |-> "", payload |-> JNone]

NoResult == Raised("none", "none")

-----------------------------------------------------------------------------
(* The process environment, comments, clear_cache and sessions in flight *)

(* A comment posted by add_issue_comment: who posted it and the mode of the *)
(* server at that moment.                                                   *)
Comment(by, demo) == [by |-> by, demo_mode |-> demo]

NoComment == Comment("none", FALSE)

(* The sessions one issue can have in flight at once *)
MaxFlights == 2

FlightIds == 1..MaxFlights

(* A scope session: the position of its background task, the status the    *)
(* agent service reports for it, and the status requests of the task.       *)
Flight(task, agent, polls_sent) == [task |-> task, agent |-> agent, polls |-> polls_sent]

NoFlight == Flight("none", "none", 0)

NoFlights == [requests |-> 0, sessions |-> [f \in FlightIds |-> NoFlight]]

(* request.json of clear_cache: issue_numbers, result_types, and a toggle   *)
(* telling one request from the next.                                       *)
ClearRequest(issue_numbers, result_types, n) ==
    [issue_numbers |-> issue_numbers, result_types |-> result_types, n |-> n]

(* data.get('result_types', ...): the list of the body, or no such key *)
TypesGiven(types) == [given |-> TRUE, types |-> types]

TypesAbsent == [given |-> FALSE, types |-> {}]

NoClear == ClearRequest({}, TypesAbsent, 0)

-----------------------------------------------------------------------------
(* wait_for_completion *)

(* The terminal list without its last entry *)
IsTerminalThree(status) == status \in {"blocked", "stopped", "completed"}

IsTerminal(status) == \E k \in DOMAIN TerminalList : TerminalList[k] = status

LoopContinues(total, max) == RatLessInt(total, max)

(* The sleep without its cap *)
SleepUncapped(b) == b

SleepDuration(b) == IF RatLeq(b, FromInt(MaxSleep)) THEN b ELSE FromInt(MaxSleep)

(* The backoff doubled instead of multiplied by 1.5 *)
NextBackoffDoubles(b) == Rat(2 * b.n, b.d)

NextBackoff(b) == Rat(3 * b.n, 2 * b.d)

(* total_wait left as it is / set to the backoff instead of advanced by it *)
NextTotalWaitStuck(total, b) == total

NextTotalWaitAssign(total, b) == b

NextTotalWait(total, b) == RatAdd(total, b)

(* The deadlines a caller passes: the small ones, one in the range where   *)
(* sleeps are capped, and the default. The loop of the code has no cap on  *)
(* its polls; the model explores at most MaxPolls of them, more than any   *)
(* of these deadlines allows.                                               *)
MaxWaitTimes == (0 .. MaxSmallWait) \cup {2 * MaxSleep, DefaultMaxWait}

(* Ghost: a poll of a create-pr session that reports one of the four        *)
(* terminal statuses makes Stage A of that issue "observed terminal".       *)
ObserveStageA(sid, s) ==
    IF sid \in sessions /\ sid[1] = "pr" /\ s.status \in StatusTokens \ {"running", "finished", "unknown"}
    THEN stage_a_terminal \cup {sid[2]}
    ELSE stage_a_terminal

(* Local state of a call at its entry *)
EnterCall(o, i, sid, m, p) ==
    /\ pc = "idle"
    /\ op' = o
    /\ pc' = p
    /\ issue' = i
    /\ session_id' = sid
    /\ max_wait_time' = m
    /\ backoff' = FromInt(InitialBackoff)
    /\ total_wait' = FromInt(0)
    /\ sleeps' = <<>>
    /\ polls' = 0
    /\ creates' = 0
    /\ session' = NoSession
    /\ outcome' = "none"
    /\ result' = NoSession
    /\ error' = NoError
    /\ failed_response' = NoAnswer
    /\ UNCHANGED <<sessions, stage_a_terminal, webVars>>
    /\ UNCHANGED <<serverVars, normVars, sideVars>>

(* A caller awaits wait_for_completion(session_id, max_wait_time) itself *)
CallWaitForCompletion ==
    \E sid \in sessions \cup {NoId}, m \in MaxWaitTimes :
        EnterCall("wait_for_completion", 0, sid, m, "wait")

(* line 100 false, line 110: the loop ends and the timeout is raised *)
WaitTimeout ==
    /\ pc = "wait"
    /\ ~LoopContinues(total_wait, max_wait_time)
    /\ pc' = "done"
    /\ outcome' = "timeout"
    /\ error' = TimeoutError(session_id, max_wait_time)
    /\ UNCHANGED failed_response
    /\ UNCHANGED <<op, issue, session_id, max_wait_time, backoff, total_wait, sleeps,
                   polls, creates, session, result, sessions, stage_a_terminal, webVars>>
    /\ UNCHANGED <<serverVars, normVars, sideVars>>

(* line 101: get_session_status raises, the exception leaves the loop *)
WaitPollRaises ==
    /\ pc = "wait"
    /\ LoopContinues(total_wait, max_wait_time)
    /\ polls < MaxPolls
    /\ \E resp \in RaisingResponses :
        /\ outcome' = StatusRaises(resp)
        /\ error' = StatusError(resp)
        /\ failed_response' = resp
    /\ polls' = polls + 1
    /\ pc' = "done"
    /\ UNCHANGED <<op, issue, session_id, max_wait_time, backoff, total_wait, sleeps,
                   creates, session, result, sessions, stage_a_terminal, webVars>>
    /\ UNCHANGED <<serverVars, normVars, sideVars>>

(* The result record is built from the payload of the returned session;    *)
(* pydantic rejects a field of an unexpected type (lines 164-175, 303-320). *)
NormalizeRaises(s) == s.structured_output.shape = "bad_fields"

(* What the operation makes of the session wait_for_completion returns:    *)
(* wait_for_completion itself returns it (line 104); scope_issue (lines    *)
(* 144-175) and generate_summary (lines 263-320) build their result record *)
(* from its payload, with no suspension point in between.                  *)
Completion(o, s) ==
    IF o # "wait_for_completion" /\ NormalizeRaises(s)
    THEN [outcome |-> "validation_error", result |-> NoSession]
    ELSE [outcome |-> "returned", result |-> s]

(* lines 101-104: the poll reports a terminal status, the session is returned *)
WaitPollTerminal ==
    /\ pc = "wait"
    /\ LoopContinues(total_wait, max_wait_time)
    /\ polls < MaxPolls
    /\ \E s \in PolledSessions :
        /\ IsTerminal(s.status)
        /\ session' = s
    /\ polls' = polls + 1
    /\ pc' = "done"
    /\ outcome' = Completion(op, session').outcome
    /\ result' = Completion(op, session').result
    /\ error' = IF outcome' = "validation_error" THEN PayloadError ELSE NoError
    /\ UNCHANGED failed_response
    /\ stage_a_terminal' = ObserveStageA(session_id, session')
    /\ UNCHANGED <<op, issue, session_id, max_wait_time, backoff, total_wait, sleeps,
                   creates, sessions, webVars>>
    /\ UNCHANGED <<serverVars, normVars, sideVars>>

(* lines 101-103: the poll reports any other status. Line 103 reads only   *)
(* the status of such a session and the next poll replaces it, so its      *)
(* payload is not kept in the state.                                        *)
WaitPollNonTerminal ==
    /\ pc = "wait"
    /\ LoopContinues(total_wait, max_wait_time)
    /\ polls < MaxPolls
    /\ \E st \in {s.status : s \in PolledSessions} :
        /\ ~IsTerminal(st)
        /\ session' = [status |-> st, structured_output |-> NoOutput]
    /\ polls' = polls + 1
    /\ pc' = "sleep"
    /\ UNCHANGED <<op, issue, session_id, max_wait_time, backoff, total_wait, sleeps,
                   creates, outcome, result, sessions, stage_a_terminal, webVars, errVars>>
    /\ UNCHANGED <<serverVars, normVars, sideVars>>

(* lines 106-108: sleep min(backoff, 30), then backoff *= 1.5, total_wait += backoff *)
WaitSleep ==
    /\ pc = "sleep"
    /\ sleeps' = Append(sleeps, SleepDuration(backoff))
    /\ backoff' = NextBackoff(backoff)
    /\ total_wait' = NextTotalWait(total_wait, backoff')
    /\ pc' = "wait"
    /\ UNCHANGED <<op, issue, session_id, max_wait_time, polls, creates, session,
                   outcome, result, sessions, stage_a_terminal, webVars, errVars>>
    /\ UNCHANGED <<serverVars, normVars, sideVars>>

WaitForCompletion ==
    WaitTimeout \/ WaitPollRaises \/ WaitPollTerminal \/ WaitPollNonTerminal \/ WaitSleep

InitExceptKey ==
    /\ op = "none"
    /\ pc = "idle"
    /\ issue = 0
    /\ session_id = NoId
    /\ max_wait_time = DefaultMaxWait
    /\ backoff = FromInt(InitialBackoff)
    /\ total_wait = FromInt(0)
    /\ sleeps = <<>>
    /\ polls = 0
    /\ creates = 0
    /\ session = NoSession
    /\ outcome = "none"
    /\ result = NoSession
    /\ sessions = {}
    /\ stage_a_terminal = {}
    /\ runtime_config = [github_token |-> "", devin_api_key |-> "", repo_name |-> "",
                         demo_mode |-> TRUE, enable_commenting |-> FALSE]
    /\ session_data = NoSession
    /\ response = NoResponse
    /\ error = NoError
    /\ failed_response = NoAnswer
    /\ cache = [k \in CacheKeys |-> NoFile]
    /\ demo_written = {}
    /\ last_saved = NoSave
    /\ loaded = NoLoad
    /\ tasks = NoTasks
    /\ answer = NoRequest
    /\ threads = [t \in Threads |-> IdleThread]
    /\ sent = {}
    /\ delivered = NoDelivery
    /\ normalized = NoResult
    /\ posted = NoComment
    /\ cleared = NoClear
    /\ flights = NoFlights

(* config.py, lines 4-7: load_dotenv() and                                  *)
(* Config.DEVIN_API_KEY = os.getenv("DEVIN_API_KEY")                        *)
ConfigKeyOfEnv(env) == IF env = NoEnv THEN "" ELSE env

(* The server started without DEVIN_API_KEY in its environment *)
Init ==
    /\ InitExceptKey
    /\ env_key = NoEnv
    /\ config_key = ConfigKeyOfEnv(NoEnv)

-----------------------------------------------------------------------------
(* scope_issue, create_pr, generate_summary *)

SessionKind(o) ==
    CASE o = "scope_issue"      -> "scope"
      [] o = "create_pr"        -> "pr"
      [] o = "generate_summary" -> "summary"
      [] o = "web_create_pr"    -> "pr"

(* A caller awaits one of the three client operations for an issue *)
CallScopeIssue ==
    \E i \in Issues : EnterCall("scope_issue", i, NoId, DefaultMaxWait, "create")

CallCreatePr ==
    \E i \in Issues : EnterCall("create_pr", i, NoId, DefaultMaxWait, "create")

CallGenerateSummary ==
    \E i \in Issues : EnterCall("generate_summary", i, NoId, DefaultMaxWait, "create")

(* Where the operation goes when create_session raises: the exception     *)
(* leaves the client operation (lines 141, 224, 260); the web handler      *)
(* catches it and answers (web_server.py line 910).                         *)
(* The failure of create_session swallowed: the call tries again *)
AfterCreateFailureRetries(o) == "create"

AfterCreateFailure(o) == IF o = "web_create_pr" THEN "created" ELSE "done"

(* Where the operation goes with the created session: create_pr returns it *)
(* (line 224), scope_issue and generate_summary wait for it (lines 142,    *)
(* 261), the web handler answers with its id (web_server.py line 901).      *)
AfterCreate(o) ==
    CASE o = "create_pr"     -> "done"
      [] o = "web_create_pr" -> "created"
      [] OTHER               -> "wait"

(* create_session, lines 31-37: the service answers with a non-200 status *)
CreateSessionFails ==
    /\ pc = "create"
    /\ creates' = creates + 1
    /\ pc' = AfterCreateFailure(op)
    /\ outcome' = IF pc' = "create" THEN outcome ELSE "service_error"
    /\ \E resp \in HttpErrors :
        /\ error' = ServiceError("Failed to create Devin session", resp)
        /\ failed_response' = resp
    /\ UNCHANGED <<op, issue, session_id, max_wait_time, backoff, total_wait, sleeps,
                   polls, session, result, sessions, stage_a_terminal, webVars>>
    /\ UNCHANGED <<serverVars, normVars, sideVars>>

(* create_session, lines 39-55: the service created the session and        *)
(* answers with its id.                                                     *)
CreateSessionSucceeds ==
    /\ pc = "create"
    /\ creates' = creates + 1
    /\ session_id' = <<SessionKind(op), issue>>
    /\ sessions' = sessions \cup {session_id'}
    /\ pc' = AfterCreate(op)
    /\ outcome' = IF pc' = "wait" THEN outcome ELSE "returned"
    /\ UNCHANGED <<op, issue, max_wait_time, backoff, total_wait, sleeps,
                   polls, session, result, stage_a_terminal, webVars, errVars>>
    /\ UNCHANGED <<serverVars, normVars, sideVars>>

(* The call has ended: its caller takes the result or the exception and    *)
(* the locals of the call are gone.                                         *)
Return ==
    /\ pc = "done"
    /\ op' = "none"
    /\ pc' = "idle"
    /\ issue' = 0
    /\ session_id' = NoId
    /\ max_wait_time' = DefaultMaxWait
    /\ backoff' = FromInt(InitialBackoff)
    /\ total_wait' = FromInt(0)
    /\ sleeps' = <<>>
    /\ polls' = 0
    /\ creates' = 0
    /\ session' = NoSession
    /\ outcome' = "none"
    /\ result' = NoSession
    /\ session_data' = NoSession
    /\ response' = NoResponse
    /\ error' = NoError
    /\ failed_response' = NoAnswer
    /\ UNCHANGED <<sessions, stage_a_terminal, runtime_config>>
    /\ UNCHANGED <<serverVars, normVars, sideVars>>

NextWait == CallWaitForCompletion \/ WaitForCompletion \/ Return

SpecWait == Init /\ [][NextWait]_vars

(* The event loop resumes the coroutine whenever its request or its sleep  *)
(* has ended, and each of them ends.                                        *)
SpecWaitFair == SpecWait /\ WF_vars(WaitForCompletion)

-----------------------------------------------------------------------------
(* The web front end: configuration, create-pr and its status handler *)

GithubTokens == {"", "ghp_token"}
DevinApiKeys == {"", "placeholder_key", "apk_key"}
RepoNames == {"", "owner/name"}

(* set_runtime_config, lines 28-35 *)
SetRuntimeConfig(token, key, repo, commenting) ==
    [github_token |-> token, devin_api_key |-> key, repo_name |-> repo,
     demo_mode |-> ~(token # "" /\ repo # ""), enable_commenting |-> commenting]

(* configure, lines 277-291 *)
Configure ==
    /\ pc = "idle"
    /\ \E token \in GithubTokens, key \in DevinApiKeys, repo \in RepoNames,
          commenting \in BOOLEAN :
          runtime_config' = SetRuntimeConfig(token, key, repo, commenting)
    /\ UNCHANGED <<op, pc, issue, session_id, max_wait_time, backoff, total_wait, sleeps,
                   polls, creates, session, outcome, result, sessions, stage_a_terminal,
                   session_data, response, errVars>>
    /\ UNCHANGED <<serverVars, normVars, sideVars>>

(* A constructor that rejects the missing key only *)
DevinClientRaisesMissingOnly(key) == key = ""

(* DevinClient.__init__, lines 13-15 *)
DevinClientRaises(key) == key = "" \/ key = "placeholder_key"

(* A client whenever a key is configured *)
GetDevinClientOfKey(cfg) ==
    IF cfg.devin_api_key = "" THEN "none"
    ELSE IF DevinClientRaises(cfg.devin_api_key) THEN "raises"
    ELSE "client"

(* get_devin_client, lines 175-199: "none" (no client), "raises", "client" *)
GetDevinClient(cfg) ==
    IF cfg.demo_mode \/ cfg.devin_api_key = "" THEN "none"
    ELSE IF DevinClientRaises(cfg.devin_api_key) THEN "raises"
    ELSE "client"

ErrorResponse(text) == [NoResponse EXCEPT !.error = text]

(* Entry of a web handler: its locals, and either the early answer or the  *)
(* position p of its first network call.                                    *)
EnterHandler(o, i, sid, early, p) ==
    /\ pc = "idle"
    /\ op' = o
    /\ issue' = i
    /\ session_id' = sid
    /\ pc' = IF early = NoResponse THEN p ELSE "done"
    /\ response' = early
    /\ outcome' = IF early = NoResponse THEN "none" ELSE "answered"
    /\ UNCHANGED <<max_wait_time, backoff, total_wait, sleeps, polls, creates, session,
                   result, sessions, stage_a_terminal, runtime_config, session_data,
                   errVars>>
    /\ UNCHANGED <<serverVars, normVars, sideVars>>

(* create_pr (web), lines 850-896: demo answer, missing clients, a failing *)
(* tracker request, or on to the create_session of DevinClient.create_pr.   *)
WebCreatePr ==
    \E i \in Issues, tracker_ok \in BOOLEAN :
        EnterHandler("web_create_pr", i, NoId,
            IF runtime_config.demo_mode
            THEN [NoResponse EXCEPT !.success = TRUE, !.status = "demo"]
            ELSE IF GetDevinClient(runtime_config) = "raises"
            THEN ErrorResponse("DEVIN_API_KEY environment variable is required")
            ELSE IF GetDevinClient(runtime_config) = "none"
            THEN ErrorResponse("Devin API key not available")
            ELSE IF ~tracker_ok
            THEN ErrorResponse("Failed to fetch issue")
            ELSE NoResponse,
            "create")

(* get_pr_creation_status, lines 1052-1058 *)
CallGetPrCreationStatus ==
    \E i \in Issues, sid \in sessions \cup {NoId} :
        EnterHandler("get_pr_creation_status", i, sid,
            IF GetDevinClient(runtime_config) = "raises"
            THEN ErrorResponse("DEVIN_API_KEY environment variable is required")
            ELSE IF GetDevinClient(runtime_config) = "none"
            THEN ErrorResponse("Devin client not available")
            ELSE NoResponse,
            "status")

(* The statuses get_pr_creation_status takes as finished, line 1062 *)
PrStatusFinished(status) == status \in {"completed", "stopped", "blocked"}

(* lines 1063-1070: the URL the payload of the session gives directly *)
DirectPrUrl(s) == s.structured_output.pull_request_url

(* lines 1074-1086: the URL in the devin_message entries of the payload *)
MessagePrUrl(s) == s.structured_output.message_url

(* Whether get_pr_creation_status asks for the status again, line 1072 *)
NeedsSecondRequest(s) == DirectPrUrl(s) = ""

(* lines 1098-1110: the answer for a finished session *)
PrResult(s, url) ==
    [success |-> TRUE, status |-> s.status,
     pull_request_url |-> IF url = "" THEN "PR URL not available" ELSE url,
     error |-> ""]

(* line 1060 raises: the handler answers with the error, line 1120 *)
PrStatusRaises ==
    /\ pc \in {"status", "status_again"}
    /\ op = "get_pr_creation_status"
    /\ polls' = polls + 1
    /\ \E e \in StatusErrors : response' = ErrorResponse(e)
    /\ pc' = "done"
    /\ outcome' = "answered"
    /\ UNCHANGED <<op, issue, session_id, max_wait_time, backoff, total_wait, sleeps,
                   creates, session, result, sessions, stage_a_terminal,
                   runtime_config, session_data, errVars>>
    /\ UNCHANGED <<serverVars, normVars, sideVars>>

(* lines 1060-1072 and 1098-1116: the first status request and what the    *)
(* handler does with the session it returns.                                *)
PrStatusPoll ==
    /\ pc = "status"
    /\ op = "get_pr_creation_status"
    /\ polls' = polls + 1
    /\ \E s \in PolledSessions : session' = s
    /\ stage_a_terminal' = ObserveStageA(session_id, session')
    /\ IF PrStatusFinished(session'.status)
       THEN IF NeedsSecondRequest(session')
            THEN /\ pc' = "status_again"
                 /\ UNCHANGED <<response, outcome>>
            ELSE /\ pc' = "done"
                 /\ response' = PrResult(session', DirectPrUrl(session'))
                 /\ outcome' = "answered"
       ELSE /\ pc' = "done"
            /\ response' = [NoResponse EXCEPT !.success = TRUE, !.status = session'.status]
            /\ outcome' = "answered"
    /\ UNCHANGED <<op, issue, session_id, max_wait_time, backoff, total_wait, sleeps,
                   creates, result, sessions, runtime_config, session_data, errVars>>
    /\ UNCHANGED <<serverVars, normVars, sideVars>>

(* lines 1073-1110: the second status request for the same session *)
PrStatusPollAgain ==
    /\ pc = "status_again"
    /\ op = "get_pr_creation_status"
    /\ polls' = polls + 1
    /\ \E s \in PolledSessions : session_data' = s
    /\ stage_a_terminal' = ObserveStageA(session_id, session_data')
    /\ response' = PrResult(session, MessagePrUrl(session_data'))
    /\ pc' = "done"
    /\ outcome' = "answered"
    /\ UNCHANGED <<op, issue, session_id, max_wait_time, backoff, total_wait, sleeps,
                   creates, session, result, sessions, runtime_config, errVars>>
    /\ UNCHANGED <<serverVars, normVars, sideVars>>

(* create_pr (web), lines 899-911: the answer once create_session is done *)
WebCreatePrAnswer ==
    /\ pc = "created"
    /\ op = "web_create_pr"
    /\ pc' = "done"
    /\ response' = IF outcome = "returned"
                   THEN [NoResponse EXCEPT !.success = TRUE, !.status = "started"]
                   ELSE ErrorResponse("Failed to create Devin session")
    /\ UNCHANGED <<op, issue, session_id, max_wait_time, backoff, total_wait, sleeps,
                   polls, creates, session, outcome, result, sessions, stage_a_terminal,
                   runtime_config, session_data, errVars>>
    /\ UNCHANGED <<serverVars, normVars, sideVars>>

NextWeb ==
    \/ Configure
    \/ WebCreatePr
    \/ CreateSessionFails
    \/ CreateSessionSucceeds
    \/ WebCreatePrAnswer
    \/ CallGetPrCreationStatus
    \/ PrStatusRaises
    \/ PrStatusPoll
    \/ PrStatusPollAgain
    \/ Return

SpecWeb == Init /\ [][NextWeb]_vars

Next ==
    \/ CallWaitForCompletion
    \/ CallScopeIssue
    \/ CallCreatePr
    \/ CallGenerateSummary
    \/ CreateSessionFails
    \/ CreateSessionSucceeds
    \/ WaitForCompletion
    \/ Return

Spec == Init /\ [][Next]_vars

-----------------------------------------------------------------------------
(* save_cached_result and load_cached_result called one after the other *)

StoreKeys == {<<42, "scope">>, <<42, "scope_2a">>, <<123, "scope">>}

(* Records the handlers and background tasks hand to save_cached_result *)
StoreRecords ==
    {DemoScopeRecord(42),
     LiveRecord("scope", "devin-N", "0.85"),
     LiveRecord("scope", "devin-N", "nan"),
     WithComment(LiveRecord("scope", "devin-N", "0.85")),
     ErrorRecord("devin-N", "timeout")}

StoreSave ==
    /\ \E key \in StoreKeys, r \in StoreRecords : Save(key, r)
    /\ loaded' = NoLoad
    /\ UNCHANGED <<normVars, sideVars, callVars, runtime_config, demo_written, tasks, answer, threads,
                   config_key, sent>>

StoreLoad ==
    /\ \E key \in StoreKeys :
          loaded' = [key |-> key, value |-> LoadCachedResult(cache, key)]
    /\ UNCHANGED <<normVars, sideVars, callVars, runtime_config, cache, demo_written, last_saved, tasks,
                   answer, threads, config_key, sent>>

(* The bodies posted to /api/cache/clear *)
ClearIssueLists == {{}, {42}, {42, 123}}

ClearTypeLists == {TypesAbsent, TypesGiven({}), TypesGiven({"scope", "scope_2a"})}

(* clear_cache, lines 1441-1472 *)
StoreClear ==
    /\ \E issue_numbers \in ClearIssueLists, result_types \in ClearTypeLists :
         /\ cleared' = ClearRequest(issue_numbers, result_types, (cleared.n + 1) % 2)
         /\ cache' = ClearCache(cache, issue_numbers, result_types)
    /\ UNCHANGED <<normVars, env_key, posted, flights, callVars, runtime_config,
                   demo_written, last_saved, loaded, tasks, answer, threads, config_key,
                   sent>>

NextStore == StoreSave \/ StoreLoad

(* The files written between two clears *)
FillKeys ==
    {<<42, "scope">>, <<42, "scope_2a">>, <<42, "complete">>, <<123, "scope">>,
     <<123, "scope_2b">>}

(* save_cached_result between two clears *)
StoreFill ==
    /\ \E key \in FillKeys : cache' = SaveCachedResult(cache, key, DemoScopeRecord(key[1]))
    /\ UNCHANGED <<normVars, sideVars, callVars, runtime_config, demo_written, last_saved,
                   loaded, tasks, answer, threads, config_key, sent>>

NextClear == StoreFill \/ StoreClear

SpecClear == Init /\ [][NextClear]_vars

SpecStore == Init /\ [][NextStore]_vars

-----------------------------------------------------------------------------
(* The caching handlers of the web server and their background tasks.      *)
(* Each handler runs to its answer in one step; a background task takes one *)
(* step to obtain its client and one to end its wait. The requests are for  *)
(* one issue, and one background task is followed at a time.               *)

CachedIssue == 123

(* The configurations posted to /api/configure: none (demo mode), live with *)
(* a key, with commenting, without a key, with a placeholder key, and with  *)
(* tokens and commenting but no repository (demo mode).                     *)
ServerConfigs ==
    {SetRuntimeConfig("", "", "", FALSE),
     SetRuntimeConfig("ghp_token", "apk_key", "owner/name", FALSE),
     SetRuntimeConfig("ghp_token", "apk_key", "owner/name", TRUE),
     SetRuntimeConfig("ghp_token", "", "owner/name", FALSE),
     SetRuntimeConfig("ghp_token", "placeholder_key", "owner/name", FALSE),
     SetRuntimeConfig("ghp_token", "apk_key", "", TRUE)}

(* configure, lines 277-291 *)
ConfigureServer ==
    /\ \E cfg \in ServerConfigs : runtime_config' = cfg
    /\ UNCHANGED <<callVars, serverVars, normVars, sideVars>>

(* The session ids of the model that start with "demo-" *)
DemoPrefixed == {"demo-2a-N", "demo-2b-N"}

(* str(x).startswith('demo-') *)
StartsWithDemo(x) == x.t = "str" /\ x.v \in DemoPrefixed

(* The demo indicators: lines 479-481 for scope, 344 and 615 for the steps *)
IsDemoMarked(kind, r) ==
    \/ StartsWithDemo(r.session_id)
    \/ kind = "scope" /\ PyEq(r.complexity_assessment, Str(MarkerComplexity))

(* A cached record is answered in demo mode only *)
CacheHitDemoOnly(kind, c, live) == Truthy(c) /\ ~live

(* lines 475-515, 342-360, 613-631: the cached record is answered unless   *)
(* the server is live and the record carries a demo indicator.              *)
CacheHit(kind, c, live) == Truthy(c) /\ (live => ~IsDemoMarked(kind, c.rec))

(* A client for every configuration that has a token *)
GetGithubClientOfToken(cfg) == cfg.github_token # ""

(* get_github_client, lines 37-40: None in demo mode or without a token *)
GetGithubClient(cfg) == ~(cfg.demo_mode \/ cfg.github_token = "")

(* lines 485-489, 501-505, 1253-1258: a comment is posted when commenting  *)
(* is enabled and get_github_client() gives a client.                       *)
Commenting(cfg) == cfg.enable_commenting /\ GetGithubClient(cfg)

(* lines 754-758, 919-923: enable_commenting and not demo_mode, then the    *)
(* client.                                                                  *)
CommentingLive(cfg) == cfg.enable_commenting /\ ~cfg.demo_mode /\ GetGithubClient(cfg)

(* lines 485-493: with a comment posted the answer carries it *)
AnswerRecord(cfg, r) ==
    IF Commenting(cfg) THEN WithComment(r) ELSE r

(* The comment of a handler or task, if it posts one *)
PostedBy(by, cfg, posts) == IF posts THEN Comment(by, cfg.demo_mode) ELSE NoComment

(* The session the agent service creates *)
LiveSessionId == "devin-N"

(* An answer without a record: an error, 'started', or the demo session *)
PlainAnswer(handler, kind, live, hit) ==
    Answer(handler, CachedIssue, kind, live, hit, FALSE, None, FALSE, FALSE, FALSE, FALSE)

(* What follows the cache check of a live handler up to create_session:    *)
(* no client, DevinClient() raising, get_issue raising, create_session      *)
(* raising, or a session.                                                   *)
LiveOutcomes(cfg) ==
    CASE GetDevinClient(cfg) = "none"   -> {"no_client"}
      [] GetDevinClient(cfg) = "raises" -> {"client_error"}
      [] OTHER                          -> {"github_error", "create_error", "created"}

(* A request for step 2b without a result of step 2a *)
NeverMissesStep2a(kind, c) == FALSE

(* scope_issue_2b, lines 632-634: step2a = load_cached_result(n, 'scope_2a') *)
(* and, if not step2a, the answer 'Step 2a result not found'.                *)
MissesStep2a(kind, c) ==
    kind = "scope_2b" /\ ~Truthy(LoadCachedResult(c, <<CachedIssue, "scope_2a">>))

(* The handlers that start a background task: scope_issue (lines 470-607), *)
(* scope_issue_2a (339-432), scope_issue_2b (610-712).                      *)
StartingRequest(handler, kind, demo) ==
    LET key  == <<CachedIssue, kind>>
        cfg  == runtime_config
        live == ~cfg.demo_mode
        c    == LoadCachedResult(cache, key)
    IN  /\ IF CacheHit(kind, c, live)
           THEN /\ answer' = Answer(handler, CachedIssue, kind, live, c, TRUE,
                                    Some(IF kind = "scope" THEN AnswerRecord(cfg, c.rec)
                                                           ELSE c.rec),
                                    FALSE, FALSE, key \in demo_written, FALSE)
                /\ posted' = PostedBy(handler, cfg, kind = "scope" /\ Commenting(cfg))
                /\ UNCHANGED <<cache, demo_written, tasks>>
           ELSE IF MissesStep2a(kind, cache)
           THEN /\ answer' = PlainAnswer(handler, kind, live, c)
                /\ posted' = NoComment
                /\ UNCHANGED <<cache, demo_written, tasks>>
           ELSE IF ~live
           THEN /\ cache' = SaveCachedResult(cache, key, demo)
                /\ demo_written' = demo_written \cup {key}
                /\ answer' = Answer(handler, CachedIssue, kind, live, c, FALSE, Some(demo),
                                    FALSE, TRUE, FALSE, FALSE)
                /\ posted' = NoComment
                /\ UNCHANGED tasks
           ELSE \E out \in LiveOutcomes(cfg) :
                  /\ posted' = NoComment
                  /\ IF out = "created"
                     THEN /\ tasks = NoTasks
                          /\ tasks' = [tasks EXCEPT ![kind] = "started"]
                          /\ answer' = Answer(handler, CachedIssue, kind, live, c, FALSE,
                                              None, TRUE, FALSE, FALSE, FALSE)
                          /\ UNCHANGED <<cache, demo_written>>
                     ELSE /\ answer' = PlainAnswer(handler, kind, live, c)
                          /\ UNCHANGED <<cache, demo_written, tasks>>
        /\ UNCHANGED <<normVars, env_key, cleared, flights, callVars, runtime_config, last_saved, loaded, threads, config_key, sent>>

ScopeIssueRequest ==
    StartingRequest("scope_issue", "scope", DemoScopeRecord(CachedIssue))

ScopeStepRequest ==
    \E kind \in {"scope_2a", "scope_2b"} :
        StartingRequest(IF kind = "scope_2a" THEN "scope_issue_2a" ELSE "scope_issue_2b",
                        kind, DemoStepRecord(kind, CachedIssue))

(* complete_issue, lines 748-846 *)
CompleteIssueRequest ==
    LET key  == <<CachedIssue, "complete">>
        cfg  == runtime_config
        live == ~cfg.demo_mode
        c    == LoadCachedResult(cache, key)
    IN  /\ IF Truthy(c)
           THEN /\ answer' = Answer("complete_issue", CachedIssue, "complete", live, c, TRUE,
                                    Some(IF CommentingLive(cfg) THEN WithComment(c.rec)
                                                                ELSE c.rec),
                                    FALSE, FALSE, key \in demo_written, FALSE)
                /\ posted' = PostedBy("complete_issue", cfg, CommentingLive(cfg))
                /\ UNCHANGED <<cache, demo_written>>
           ELSE IF ~live
           THEN /\ cache' = SaveCachedResult(cache, key, DemoCompletionRecord(CachedIssue))
                /\ demo_written' = demo_written \cup {key}
                /\ answer' = Answer("complete_issue", CachedIssue, "complete", live, c, FALSE,
                                    Some(DemoCompletionRecord(CachedIssue)),
                                    FALSE, TRUE, FALSE, FALSE)
                /\ posted' = NoComment
           ELSE /\ answer' = PlainAnswer("complete_issue", "complete", live, c)
                /\ posted' = NoComment
                /\ UNCHANGED <<cache, demo_written>>
        /\ UNCHANGED <<normVars, env_key, cleared, flights, callVars, runtime_config, last_saved, loaded, tasks, threads,
                       config_key, sent>>

(* create_pr, lines 847-911: the cache of kind complete is not read; hit   *)
(* records what it holds when the request arrives.                          *)
CreatePrRequest ==
    LET cfg  == runtime_config
        live == ~cfg.demo_mode
        c    == LoadCachedResult(cache, <<CachedIssue, "complete">>)
    IN  /\ IF ~live
           THEN answer' = PlainAnswer("create_pr", "complete", live, c)
           ELSE \E out \in LiveOutcomes(cfg) :
                  answer' = [PlainAnswer("create_pr", "complete", live, c)
                                EXCEPT !.created = (out = "created")]
        /\ posted' = NoComment
        /\ UNCHANGED <<normVars, env_key, cleared, flights, callVars, runtime_config, cache, demo_written, last_saved, loaded,
                       tasks, threads, config_key, sent>>

(* generate_summary, lines 913-1047: after the cache check the demo branch *)
(* imports a module that does not exist and the live branch calls a method  *)
(* DevinClient does not have; both end in the error answer.                 *)
GenerateSummaryRequest ==
    LET key  == <<CachedIssue, "complete">>
        cfg  == runtime_config
        live == ~cfg.demo_mode
        c    == LoadCachedResult(cache, key)
    IN  /\ IF Truthy(c)
           THEN /\ answer' = Answer("generate_summary", CachedIssue, "complete", live, c,
                                    TRUE,
                                    Some(IF CommentingLive(cfg) THEN WithComment(c.rec)
                                                                ELSE c.rec),
                                    FALSE, FALSE, key \in demo_written, FALSE)
                /\ posted' = PostedBy("generate_summary", cfg, CommentingLive(cfg))
           ELSE /\ answer' = PlainAnswer("generate_summary", "complete", live, c)
                /\ posted' = NoComment
        /\ UNCHANGED <<normVars, env_key, cleared, flights, callVars, runtime_config, cache, demo_written, last_saved, loaded,
                       tasks, threads, config_key, sent>>

TaskName(kind) ==
    CASE kind = "scope"    -> "complete_scope_session_with_devin_client"
      [] kind = "scope_2a" -> "complete_scope_2a_session"
      [] OTHER             -> "complete_scope_2b_session"

(* The complexity the agent reports for a scope session *)
AgentComplexities == {"Low complexity", MarkerComplexity}

(* lines 1228-1248 with the complexity of the payload *)
ScopeRecord(complexity) ==
    [LiveRecord("scope", LiveSessionId, "0.85") EXCEPT !.complexity_assessment = Str(complexity)]

(* The exceptions a background task meets: DevinClient() raising, the wait *)
(* timing out, a request of the wait failing.                               *)
TaskErrors == {"client_error", "timeout", "service_error"}

(* A background task has ended: what it wrote *)
TaskEnds(kind, wrote, record, failed) ==
    LET key == <<CachedIssue, kind>>
    IN  /\ tasks' = [tasks EXCEPT ![kind] = "none"]
        /\ posted' = PostedBy(TaskName(kind), runtime_config,
                              wrote /\ ~failed /\ kind = "scope"
                                 /\ Commenting(runtime_config))
        /\ IF wrote
           THEN /\ cache' = SaveCachedResult(cache, key, record)
                /\ demo_written' = demo_written \ {key}
           ELSE UNCHANGED <<cache, demo_written>>
        /\ answer' = Answer(TaskName(kind), CachedIssue, kind, ~runtime_config.demo_mode,
                            LoadCachedResult(cache, key), FALSE, None, FALSE, wrote, FALSE,
                            failed)

(* The except clause of a task: lines 1264-1266 only print, lines 1284-1289 *)
(* and 1308-1313 save the error dict.                                       *)
TaskRaises(kind, err) ==
    TaskEnds(kind, kind # "scope", ErrorRecord(LiveSessionId, err), TRUE)

(* The first lines of a task (1199-1202, 1269-1271, 1293-1295): without a  *)
(* client the task returns, and DevinClient() raising is caught below.      *)
TaskStarts ==
    /\ \E kind \in TaskKinds :
         /\ tasks[kind] = "started"
         /\ CASE GetDevinClient(runtime_config) = "none" ->
                   TaskEnds(kind, FALSE, EmptyRecord, FALSE)
              [] GetDevinClient(runtime_config) = "raises" ->
                   TaskRaises(kind, "client_error")
              [] OTHER ->
                   /\ tasks' = [tasks EXCEPT ![kind] = "waiting"]
                   /\ UNCHANGED <<cache, demo_written, answer, posted>>
    /\ UNCHANGED <<normVars, env_key, cleared, flights, callVars, runtime_config, last_saved, loaded, threads, config_key, sent>>

(* wait_for_completion returns: lines 1212-1262 save the record and, with  *)
(* commenting enabled, save it again with the comment; lines 1273-1283 and  *)
(* 1297-1307 save the payload with the session id.                          *)
TaskWaitReturns ==
    /\ \E kind \in TaskKinds :
         /\ tasks[kind] = "waiting"
         /\ IF kind = "scope"
            THEN \E complexity \in AgentComplexities :
                   TaskEnds(kind, TRUE,
                            IF Commenting(runtime_config)
                            THEN WithComment(ScopeRecord(complexity))
                            ELSE ScopeRecord(complexity), FALSE)
            ELSE TaskEnds(kind, TRUE, LiveRecord(kind, LiveSessionId, "0.85"), FALSE)
    /\ UNCHANGED <<normVars, env_key, cleared, flights, callVars, runtime_config, last_saved, loaded, threads, config_key, sent>>

(* wait_for_completion raises *)
TaskWaitRaises ==
    /\ \E kind \in TaskKinds, err \in TaskErrors \ {"client_error"} :
         /\ tasks[kind] = "waiting"
         /\ TaskRaises(kind, err)
    /\ UNCHANGED <<normVars, env_key, cleared, flights, callVars, runtime_config, last_saved, loaded, threads, config_key, sent>>

NextCache ==
    \/ ConfigureServer
    \/ ScopeIssueRequest
    \/ ScopeStepRequest
    \/ CompleteIssueRequest
    \/ CreatePrRequest
    \/ GenerateSummaryRequest
    \/ TaskStarts
    \/ TaskWaitReturns
    \/ TaskWaitRaises

SpecCache == Init /\ [][NextCache]_vars

-----------------------------------------------------------------------------
(* save_cached_result run by two threads at once. open(cache_file, 'w')    *)
(* truncates the file; json.dump fills the buffer of the file object, and   *)
(* leaving the with block writes the buffer at the start of the file, each  *)
(* thread through its own descriptor. Nothing locks the file and nothing    *)
(* renames a finished file into place.                                      *)

MaxSaves == 2

WriteKeys == {<<CachedIssue, "scope">>, <<CachedIssue, "scope_2a">>}

(* The records two orchestrations of one key hand to save_cached_result:   *)
(* lines 1250 and 1262, with and without the comment.                       *)
WriteRecords ==
    {ScopeRecord("Low complexity"),
     WithComment(ScopeRecord("Low complexity")),
     ScopeRecord(MarkerComplexity)}

(* A write of new at offset 0 of a file holding old *)
Overwrite(old, new) ==
    [i \in 1 .. (IF Len(old) > Len(new) THEN Len(old) ELSE Len(new)) |->
        IF i <= Len(new) THEN new[i] ELSE old[i]]

(* line 217: with open(cache_file, 'w') as f *)
WriteOpen ==
    /\ \E th \in Threads, key \in WriteKeys, r \in WriteRecords :
         /\ threads[th].pc = "idle"
         /\ threads[th].pos < MaxSaves
         /\ threads' = [threads EXCEPT ![th] =
                           [@ EXCEPT !.pc = "opened", !.key = key, !.rec = r]]
         /\ cache' = [cache EXCEPT ![key] = [exists |-> TRUE, text |-> <<>>]]
    /\ UNCHANGED <<normVars, sideVars, callVars, runtime_config, demo_written, last_saved, loaded, tasks,
                   answer, config_key, sent>>

(* lines 218-219: json.dump and the end of the with block *)
WriteClose ==
    /\ \E th \in Threads :
         LET key == threads[th].key
             r   == threads[th].rec
         IN  /\ threads[th].pc = "opened"
             /\ cache' = [cache EXCEPT ![key] =
                             [exists |-> TRUE,
                              text |-> Overwrite(cache[key].text, Text(DumpRecord(r)))]]
             /\ last_saved' = [last_saved EXCEPT
                                  ![key] = [found |-> TRUE, rec |-> r, replaced |-> FALSE]]
             /\ threads' = [threads EXCEPT ![th] =
                               [IdleThread EXCEPT !.pos = threads[th].pos + 1]]
    /\ UNCHANGED <<normVars, sideVars, callVars, runtime_config, demo_written, loaded, tasks, answer,
                   config_key, sent>>

(* load_cached_result by a handler *)
WriteLoad ==
    /\ \E key \in WriteKeys :
          loaded' = [key |-> key, value |-> LoadCachedResult(cache, key)]
    /\ UNCHANGED <<normVars, sideVars, callVars, runtime_config, cache, demo_written, last_saved, tasks,
                   answer, threads, config_key, sent>>

NextWrite == WriteOpen \/ WriteClose \/ WriteLoad

SpecWrite == Init /\ [][NextWrite]_vars

-----------------------------------------------------------------------------
(* get_devin_client run by two threads at once, and the request each sends *)
(* with the client it obtained. runtime_config and Config.DEVIN_API_KEY are *)
(* module-level objects shared by all threads of the server; every read and *)
(* write of them is a step of its own.                                      *)

CredentialKeys == (DevinApiKeys \ {""}) \cup {"apk_other"}

(* configure, lines 277-291: with a repository, a GitHub token and a key   *)
(* (live mode), or with nothing (demo mode)                                 *)
ConfigureCredential ==
    /\ \/ \E key \in CredentialKeys :
             runtime_config' = SetRuntimeConfig("ghp_token", key, "owner/name", FALSE)
       \/ runtime_config' = SetRuntimeConfig("", "", "", FALSE)
    /\ UNCHANGED <<callVars, serverVars, normVars, sideVars>>

credUnchanged ==
    <<normVars, posted, cleared, flights, callVars, runtime_config, cache, demo_written,
      last_saved, loaded, tasks, answer>>

(* line 177: a request enters get_devin_client. configured is the key of   *)
(* the configuration the request found.                                     *)
CredEnter ==
    /\ \E th \in Threads :
         /\ threads[th].pc = "idle"
         /\ ~(runtime_config.demo_mode \/ runtime_config.devin_api_key = "")
         /\ threads' = [threads EXCEPT ![th] =
                           [IdleThread EXCEPT !.pc = "entered",
                                              !.configured = runtime_config.devin_api_key]]
    /\ UNCHANGED <<credUnchanged, config_key, env_key, sent>>

(* lines 181-182: original_key_env = os.environ.get('DEVIN_API_KEY') and   *)
(* original_key_cfg = getattr(_Cfg, 'DEVIN_API_KEY', None)                  *)
CredSaveOriginal ==
    /\ \E th \in Threads :
         /\ threads[th].pc = "entered"
         /\ threads' = [threads EXCEPT ![th] =
                           [@ EXCEPT !.pc = "saved", !.original = config_key,
                                     !.original_env = env_key]]
    /\ UNCHANGED <<credUnchanged, config_key, env_key, sent>>

(* lines 184-185: the key of the current runtime_config is stored in the   *)
(* environment and in Config; a key that is None by now makes line 184      *)
(* raise, before the try block.                                             *)
CredSetKey ==
    /\ \E th \in Threads :
         /\ threads[th].pc = "saved"
         /\ IF runtime_config.devin_api_key = ""
            THEN /\ threads' = [threads EXCEPT ![th] = IdleThread]
                 /\ UNCHANGED <<config_key, env_key>>
            ELSE /\ threads' = [threads EXCEPT ![th] = [@ EXCEPT !.pc = "set"]]
                 /\ env_key' = runtime_config.devin_api_key
                 /\ config_key' = runtime_config.devin_api_key
    /\ UNCHANGED <<credUnchanged, sent>>

(* line 190 and DevinClient.__init__, lines 13-17: the client takes the key *)
(* Config holds now, or raises.                                             *)
CredConstruct ==
    /\ \E th \in Threads :
         /\ threads[th].pc = "set"
         /\ threads' = [threads EXCEPT ![th] =
                           [@ EXCEPT !.pc = IF DevinClientRaises(config_key)
                                            THEN "raised" ELSE "constructed",
                                     !.api_key = config_key]]
    /\ UNCHANGED <<credUnchanged, config_key, env_key, sent>>

(* A finally block that restores the variable only when it was set *)
RestoredEnvIfSet(original, current) == IF original # NoEnv THEN original ELSE current

(* lines 195-198: the variable is set back to original_key_env, or deleted *)
(* when there was none.                                                     *)
RestoredEnv(original, current) == IF original # NoEnv THEN original ELSE NoEnv

(* lines 194-199: finally, the environment variable is restored and        *)
(* Config.DEVIN_API_KEY = original_key_cfg                                  *)
CredRestore ==
    /\ \E th \in Threads :
         /\ threads[th].pc \in {"raised", "constructed"}
         /\ env_key' = RestoredEnv(threads[th].original_env, env_key)
         /\ config_key' = threads[th].original
         /\ threads' = [threads EXCEPT ![th] =
                           IF threads[th].pc = "raised" THEN IdleThread
                           ELSE [@ EXCEPT !.pc = "client"]]
    /\ UNCHANGED <<credUnchanged, sent>>

(* devin_client.py lines 26 and 60: a session-create or status request     *)
(* with the headers of the client. sent holds the latest request.           *)
CredSend ==
    /\ \E th \in Threads :
         /\ threads[th].pc = "client"
         /\ sent' = {[key |-> threads[th].api_key, configured |-> threads[th].configured]}
         /\ threads' = [threads EXCEPT ![th] = IdleThread]
    /\ UNCHANGED <<credUnchanged, config_key, env_key>>

NextCred ==
    \/ ConfigureCredential
    \/ CredEnter
    \/ CredSaveOriginal
    \/ CredSetKey
    \/ CredConstruct
    \/ CredRestore
    \/ CredSend

SpecCred == Init /\ [][NextCred]_vars

-----------------------------------------------------------------------------
(* get_devin_client run by one thread at a time, in a server started with  *)
(* or without DEVIN_API_KEY in its environment or its .env file.            *)

StartEnvKeys == {NoEnv, "apk_env"}

InitOneCaller ==
    /\ InitExceptKey
    /\ \E env \in StartEnvKeys :
         /\ env_key = env
         /\ config_key = ConfigKeyOfEnv(env)

(* Thread 2 makes no call *)
OneCaller == threads[2] = IdleThread

(* lines 177-178: in demo mode or without a key the call returns None *)
CredNoClient ==
    /\ threads[1].pc = "idle"
    /\ runtime_config.demo_mode \/ runtime_config.devin_api_key = ""
    /\ threads' = [threads EXCEPT ![1] = [IdleThread EXCEPT !.pc = "no_client"]]
    /\ UNCHANGED <<credUnchanged, config_key, env_key, sent>>

(* lines 299-300, 1199-1202: the caller gives up without a client *)
CredNoClientReturns ==
    /\ threads[1].pc = "no_client"
    /\ threads' = [threads EXCEPT ![1] = IdleThread]
    /\ UNCHANGED <<credUnchanged, config_key, env_key, sent>>

NextCredOneCaller ==
    \/ ConfigureCredential
    \/ CredNoClient
    \/ CredNoClientReturns
    \/ (CredEnter /\ OneCaller')
    \/ (CredSaveOriginal /\ OneCaller')
    \/ (CredSetKey /\ OneCaller')
    \/ (CredConstruct /\ OneCaller')
    \/ (CredRestore /\ OneCaller')
    \/ (CredSend /\ OneCaller')

SpecCredOneCaller == InitOneCaller /\ [][NextCredOneCaller]_vars

-----------------------------------------------------------------------------
(* Live scoping of one issue: scope_issue creates a session and starts a   *)
(* background task for it; the agent service runs the session; the task     *)
(* polls the session and caches the result. The answer of the request is    *)
(* modelled by ScopeIssueRequest.                                           *)

(* The status requests wait_for_completion sends before total_wait reaches *)
(* max_wait_time                                                            *)
FlightWaitPolls == 2

(* The configurations of the server while sessions are in flight *)
FlightConfigs ==
    {SetRuntimeConfig("", "", "", FALSE),
     SetRuntimeConfig("ghp_token", "apk_key", "owner/name", FALSE)}

(* The statuses and the structured_output a session ends with: a complete  *)
(* object, nothing, and an object whose required_skills is a string         *)
FlightStatuses == {"completed", "blocked"}

FlightPayloads ==
    {JObj(TypicalKeys), JNone, JObj([required_skills |-> JStr("python")])}

ScopeKey == <<CachedIssue, "scope">>

ScopeCacheHit(cfg, c) == CacheHit("scope", LoadCachedResult(c, ScopeKey), ~cfg.demo_mode)

InFlight(ss) == {f \in FlightIds : ss[f].task \in {"started", "waiting"}}

Created(ss) == {f \in FlightIds : ss[f] # NoFlight}

(* A handler that creates no session while one is in flight *)
CreatesSessionSingleFlight(cfg, c, ss) ==
    /\ ~ScopeCacheHit(cfg, c)
    /\ GetDevinClient(cfg) = "client"
    /\ InFlight(ss) = {}

(* scope_issue, lines 474-516 and 586-593: a live request that misses the  *)
(* cache creates a session, whatever sessions exist.                        *)
CreatesSession(cfg, c, ss) ==
    /\ ~ScopeCacheHit(cfg, c)
    /\ GetDevinClient(cfg) = "client"

flightUnchanged ==
    <<normVars, env_key, posted, cleared, callVars, demo_written, last_saved, loaded,
      tasks, answer, threads, config_key, sent>>

(* configure, lines 277-291 *)
FlightConfigure ==
    /\ \E cfg \in FlightConfigs : runtime_config' = cfg
    /\ UNCHANGED <<flightUnchanged, cache, flights>>

(* scope_issue, lines 470-607. requests counts the live requests that miss *)
(* the cache.                                                               *)
FlightScopeRequest ==
    LET cfg == runtime_config
    IN  /\ IF ScopeCacheHit(cfg, cache)
           THEN UNCHANGED <<cache, flights>>
           ELSE IF cfg.demo_mode
           THEN /\ cache' = SaveCachedResult(cache, ScopeKey, DemoScopeRecord(CachedIssue))
                /\ UNCHANGED flights
           ELSE /\ GetDevinClient(cfg) = "client"
                /\ flights.requests < MaxFlights
                /\ flights' =
                     [requests |-> flights.requests + 1,
                      sessions |->
                        IF CreatesSession(cfg, cache, flights.sessions)
                        THEN [flights.sessions EXCEPT
                                ![Cardinality(Created(flights.sessions)) + 1] =
                                    Flight("started", "running", 0)]
                        ELSE flights.sessions]
                /\ UNCHANGED cache
        /\ UNCHANGED <<flightUnchanged, runtime_config>>

(* The agent service ends the session *)
AgentFinishes ==
    /\ \E f \in FlightIds, status \in FlightStatuses :
         /\ flights.sessions[f].agent = "running"
         /\ flights' = [flights EXCEPT !.sessions[f].agent = status]
    /\ UNCHANGED <<flightUnchanged, runtime_config, cache>>

(* complete_scope_session_with_devin_client, lines 1199-1202: the task     *)
(* returns when get_devin_client() gives no client.                         *)
FlightTaskStarts ==
    /\ \E f \in FlightIds :
         /\ flights.sessions[f].task = "started"
         /\ flights' = [flights EXCEPT !.sessions[f].task =
                           IF GetDevinClient(runtime_config) = "client"
                           THEN "waiting" ELSE "no_client"]
    /\ UNCHANGED <<flightUnchanged, runtime_config, cache>>

(* One round of wait_for_completion, devin_client.py lines 100-110, and    *)
(* what follows its return, web_server.py lines 1210-1266: a terminal       *)
(* status ends the wait and the record built from the output is saved,      *)
(* unless building it raises; any other status is followed by a sleep, and  *)
(* the wait raises when the time is used up. The except clause only prints. *)
FlightPoll ==
    /\ \E f \in FlightIds :
         LET s == flights.sessions[f]
         IN  /\ s.task = "waiting"
             /\ IF IsTerminal(s.agent)
                THEN \E payload \in FlightPayloads :
                       LET r == NormalizeWebScope(payload, s.agent)
                       IN  IF r.raised # "no"
                           THEN /\ flights' = [flights EXCEPT !.sessions[f].task = r.raised]
                                /\ UNCHANGED cache
                           ELSE /\ flights' = [flights EXCEPT !.sessions[f].task = "saved"]
                                /\ cache' = SaveCachedResult(cache, ScopeKey,
                                               AnswerRecord(runtime_config,
                                                            ScopeRecord("Low complexity")))
                ELSE /\ flights' = [flights EXCEPT
                                      !.sessions[f].polls = s.polls + 1,
                                      !.sessions[f].task =
                                          IF s.polls + 1 >= FlightWaitPolls
                                          THEN "timeout" ELSE "waiting"]
                     /\ UNCHANGED cache
    /\ UNCHANGED <<flightUnchanged, runtime_config>>

NextFlight ==
    \/ FlightConfigure
    \/ FlightScopeRequest
    \/ AgentFinishes
    \/ FlightTaskStarts
    \/ FlightPoll

SpecFlight == Init /\ [][NextFlight]_vars

(* The event loop runs every task that can run, and the agent service ends *)
(* every session.                                                           *)
SpecFlightFair ==
    SpecFlight /\ WF_vars(FlightTaskStarts) /\ WF_vars(FlightPoll) /\ WF_vars(AgentFinishes)

-----------------------------------------------------------------------------
(* Normalization: each step delivers one terminal status and payload to    *)
(* one of the operations that build a result from a session.                *)

Deliver(o, Normalize(_, _)) ==
    /\ delivered = NoDelivery
    /\ \E status \in ReturnedStatuses, payload \in DeliveredPayloads :
         /\ delivered' = [op |-> o, status |-> status, payload |-> payload]
         /\ normalized' = Normalize(payload, status)
    /\ UNCHANGED <<callVars, runtime_config, serverVars, sideVars>>

(* DevinClient.scope_issue *)
ScopeIssueNormalizes == Deliver("scope_issue", NormalizeScope)

(* DevinClient.generate_summary *)
GenerateSummaryNormalizes == Deliver("generate_summary", NormalizeSummary)

(* complete_scope_session_with_devin_client *)
WebScopeNormalizes == Deliver("complete_scope_session", NormalizeWebScope)

(* get_summary_generation_status *)
SummaryStatusNormalizes == Deliver("get_summary_generation_status", NormalizeSummaryStatus)

(* complete_scope_2a_session and complete_scope_2b_session *)
ScopeStepNormalizes == Deliver("complete_scope_2a_session", NormalizeScopeStep)

(* The operation has returned its result or raised *)
NormalizeReturns ==
    /\ delivered # NoDelivery
    /\ delivered' = NoDelivery
    /\ normalized' = NoResult
    /\ UNCHANGED <<callVars, runtime_config, serverVars, sideVars>>

NextNorm ==
    \/ NormalizeReturns
    \/ ScopeIssueNormalizes
    \/ GenerateSummaryNormalizes
    \/ WebScopeNormalizes
    \/ SummaryStatusNormalizes
    \/ ScopeStepNormalizes

SpecNorm == Init /\ [][NextNorm]_vars

-----------------------------------------------------------------------------
(* Properties *)

TerminalStatuses == {"completed", "stopped", "blocked", "suspended"}

Slept == RatSum(sleeps)

Waiting == op = "wait_for_completion"

(* C1: wait_for_completion returns the session of the first poll whose     *)
(* status is terminal: every poll before it was non-terminal and followed  *)
(* by one sleep, the returned session is the one of the last poll, and     *)
(* nothing is polled or slept after it; with two non-terminal polls and a  *)
(* terminal one there are 3 polls and the sleeps last 1 and 1.5.           *)
C1_ReturnsAtFirstTerminal ==
    /\ [](Waiting =>
            /\ pc = "sleep" => session.status \notin TerminalStatuses
            /\ outcome = "returned" =>
                  /\ session.status \in TerminalStatuses
                  /\ result = session
                  /\ Len(sleeps) = polls - 1
            /\ outcome = "returned" /\ polls = 3 => sleeps = <<Rat(1, 1), Rat(3, 2)>>)
    /\ [][Waiting /\ outcome = "returned" =>
            (polls' = polls /\ sleeps' = sleeps) \/ pc' = "idle"]_vars

C1_Witness ==
    /\ Waiting
    /\ outcome = "returned"
    /\ polls = 3
    /\ session.status = "completed"
    /\ sleeps = <<Rat(1, 1), Rat(3, 2)>>

(* How a wait_for_completion call has ended *)
WaitEnded ==
    /\ pc = "done"
    /\ \/ outcome = "returned" /\ session.status \in TerminalStatuses
       \/ outcome = "timeout" /\ session.status \notin TerminalStatuses
       \/ outcome \in {"service_error", "validation_error"}

(* C2: for every deadline and every sequence of poll results a call of     *)
(* wait_for_completion ends: with a terminal session, with the timeout     *)
(* when no poll was terminal, or with the error of a poll; and the bound   *)
(* MaxPolls of the model is never what stops it.                           *)
C2_WaitTerminates ==
    /\ (Waiting /\ pc \in {"wait", "sleep"}) ~> WaitEnded
    /\ [](pc = "wait" /\ LoopContinues(total_wait, max_wait_time) => polls < MaxPolls)

C2_Witness ==
    /\ Waiting
    /\ outcome = "timeout"
    /\ max_wait_time = DefaultMaxWait
    /\ polls > 10

(* C3: when wait_for_completion raises its timeout, the time it has slept  *)
(* is at least max_wait_time.                                              *)
C3_TimeoutOnlyAfterDeadline ==
    outcome = "timeout" => RatLeq(FromInt(max_wait_time), Slept)

(* C4: the k-th sleep (k = 0, 1, ...) lasts min(1.5^k, 30).                 *)
C4_BackoffSchedule ==
    \A k \in 1 .. Len(sleeps) :
        sleeps[k] = IF Pow(3, k - 1) <= MaxSleep * Pow(2, k - 1)
                    THEN Rat(Pow(3, k - 1), Pow(2, k - 1))
                    ELSE Rat(MaxSleep, 1)

C4_Witness ==
    /\ Len(sleeps) >= 10
    /\ sleeps[9] = Rat(6561, 256)
    /\ sleeps[10] = Rat(30, 1)

(* C5: the time slept by one call exceeds max_wait_time by at most the     *)
(* cap of one sleep, 30.                                                   *)
C5_OvershootAtMostCap == RatLeq(Slept, FromInt(max_wait_time + MaxSleep))

C5_Witness ==
    /\ outcome = "timeout"
    /\ ~RatLeq(Slept, FromInt(max_wait_time))

(* C6: wait_for_completion returns exactly when the polled status is one   *)
(* of completed, stopped, blocked, suspended; with any other status it     *)
(* goes on to sleep.                                                       *)
C6_TerminalSet ==
    Waiting =>
        /\ session.status \in TerminalStatuses <=> outcome = "returned"
        /\ pc = "sleep" => session.status \in StatusTokens \ TerminalStatuses
        /\ polls > 0 /\ session.status \notin TerminalStatuses /\ outcome = "none"
              => pc \in {"sleep", "wait"}

C6_Witness ==
    /\ Waiting
    /\ outcome = "returned"
    /\ session.status = "suspended"
    /\ polls > 1

(* C7: once an operation has seen a terminal status of a session it sends  *)
(* no further status request for it.                                       *)
C7_NoRequestAfterTerminal ==
    [][pc # "idle" /\ session.status \in TerminalStatuses =>
            polls' = polls \/ pc' = "idle"]_vars

(* The order of the requests of scope_issue: it polls only a session that  *)
(* create_session has returned, it does not poll when create_session       *)
(* failed, and it returns a result only after a poll with a terminal       *)
(* status, built from that poll.                                           *)
ScopeIssueOrder ==
    op = "scope_issue" =>
        /\ polls > 0 => creates = 1 /\ session_id \in sessions
        /\ pc \in {"wait", "sleep"} => session_id \in sessions /\ outcome = "none"
        /\ creates = 1 /\ session_id = NoId =>
              polls = 0 /\ pc = "done" /\ outcome = "service_error"
        /\ outcome = "returned" =>
              polls >= 1 /\ session.status \in TerminalStatuses /\ result = session

(* C8: scope_issue goes from create_session to polling to exactly one of   *)
(* success, timeout and service error, its requests in the order above.    *)
C8_ScopeIssueProtocol ==
    /\ ScopeIssueOrder
    /\ op = "scope_issue" =>
          (pc = "done" <=> outcome \in {"returned", "timeout", "service_error"})

(* C9: a generate-summary session exists only for an issue whose create-pr *)
(* session has been seen in a terminal status.                             *)
C9_StageBAfterStageA ==
    \A sid \in sessions : sid[1] = "summary" => sid[2] \in stage_a_terminal

(* C10: one call of scope_issue, create_pr or generate_summary sends at    *)
(* most one create_session request, and a failure of create_session, of a  *)
(* poll or of the wait ends the call without a result.                     *)
C10_NoRetry ==
    op \in {"scope_issue", "create_pr", "generate_summary"} =>
        /\ creates <= 1
        /\ outcome \in {"timeout", "service_error", "validation_error"} =>
              pc = "done" /\ result = NoSession
        /\ pc = "create" => creates = 0

C10_Witness ==
    /\ op = "generate_summary"
    /\ outcome = "timeout"
    /\ creates = 1

C12_TimeoutKindDiffers ==
    outcome = "timeout" => error.kind \notin {StatusError(resp).kind : resp \in HttpErrors}

(* C17 as stated: load_cached_result returns a record equal to the one    *)
(* handed to the latest save_cached_result of that key, whatever was saved *)
(* there or under other keys before, and None for a key never saved.       *)
C17_RoundTrip ==
    loaded # NoLoad =>
        LET s == last_saved[loaded.key]
        IN  IF s.found
            THEN loaded.value.found /\ RecEq(loaded.value.rec, s.rec)
            ELSE loaded.value = None

(* C17, amended: the record read back has in every field a value equal to  *)
(* the one saved, except that a nan saved is read back as nan, which is    *)
(* equal to nothing; so the records are equal when the one saved holds no  *)
(* nan.                                                                     *)
C17_RoundTripUpToNaN ==
    loaded # NoLoad =>
        LET s == last_saved[loaded.key]
        IN  IF s.found
            THEN /\ loaded.value.found
                 /\ \A f \in DOMAIN s.rec :
                       \/ PyEq(loaded.value.rec[f], s.rec[f])
                       \/ s.rec[f] = Float("nan") /\ loaded.value.rec[f] = Float("nan")
                 /\ ~HasNaN(s.rec) => RecEq(loaded.value.rec, s.rec)
            ELSE loaded.value = None

C17_Witness ==
    /\ loaded.key = <<42, "scope">>
    /\ last_saved[<<42, "scope">>].replaced
    /\ last_saved[<<42, "scope">>].rec = WithComment(LiveRecord("scope", "devin-N", "0.85"))
    /\ loaded.value.found
    /\ loaded.value.rec.confidence_level = Str("high")
    /\ cache[<<42, "scope_2a">>].exists

C15_NoDemoRecordInLiveMode == ~(answer.live /\ answer.cached /\ answer.stale)

(* C16: a background task whose wait timed out or whose service call       *)
(* failed writes nothing: the entry of its key is what it was before.       *)
C16_NoWriteOnFailure ==
    answer.failed =>
        /\ ~answer.saved
        /\ LoadCachedResult(cache, <<answer.issue, answer.kind>>) = answer.hit

(* C19: once the cache holds an entry for (issue, complete), a completion  *)
(* request for that issue (complete, create-pr, generate-summary) creates   *)
(* no agent session and answers with the cached record.                     *)
C19_CompletionIdempotent ==
    (answer.handler \in {"complete_issue", "create_pr", "generate_summary"}
        /\ Truthy(answer.hit)) =>
        /\ ~answer.created
        /\ answer.cached

(* C18: when the threads saving to one key have all finished, the entry   *)
(* of the key is the complete record of the thread that wrote last: a load  *)
(* finds it, and it is equal to that record.                                *)
C18_LastWriterWins ==
    (\A th \in Threads : threads[th].pc = "idle") =>
        \A key \in WriteKeys :
            last_saved[key].found =>
                LET c == LoadCachedResult(cache, key)
                IN  c.found /\ RecEq(c.rec, last_saved[key].rec)

(* C13: no request to the agent service carries a missing API key or one *)
(* that starts with "placeholder": a client holding such a key was never    *)
(* constructed.                                                             *)
C13_NoRequestWithoutKey ==
    /\ \A s \in sent : s.key \notin {"", "placeholder_key"}
    /\ \A th \in Threads :
          threads[th].pc \in {"constructed", "client"} =>
              threads[th].api_key \notin {"", "placeholder_key"}

C13_Witness ==
    /\ \E s \in sent : s.key = "apk_key"
    /\ \E th \in Threads : threads[th].pc = "raised" /\ threads[th].api_key = "placeholder_key"

(* C20: the key each request sends is the key of the configuration under   *)
(* which the request started, whatever the other request and configure do.  *)
C20_CredentialOfOwnRequest == \A s \in sent : s.key = s.configured

(* The scores a result can hold *)
Scores == {JNum(h) : h \in {0 - 50, 0, 49, 50, 79, 80, 100, 150}} \cup {JNaN}

(* C22 as stated: for every score s the level is high iff s >= 0.8, medium *)
(* iff 0.5 <= s < 0.8 and low iff s < 0.5, by calculate_confidence_level    *)
(* and by the inline classification alike.                                  *)
ThresholdsOf(Level(_), s) ==
    /\ Level(s) = "high" <=> AtLeast(s, 80)
    /\ Level(s) = "medium" <=> (AtLeast(s, 50) /\ ~AtLeast(s, 80))
    /\ Level(s) = "low" <=> (s.t = "num" /\ s.h < 50)

C22_Thresholds ==
    /\ \A s \in Scores :
          ThresholdsOf(InlineLevel, s) /\ ThresholdsOf(CalculateConfidenceLevel, s)
    /\ normalized.raised = "no" /\ delivered.op # "complete_scope_2a_session" =>
          ThresholdsOf(InlineLevel, normalized.f.confidence_score)

(* C22, amended: the thresholds hold for every score that is a number, in  *)
(* range or not; nan, which compares false with both thresholds, is low.    *)
C22_ThresholdsOfNumbers ==
    /\ \A s \in Scores :
          /\ s.t = "num" =>
                ThresholdsOf(InlineLevel, s) /\ ThresholdsOf(CalculateConfidenceLevel, s)
          /\ s = JNaN => InlineLevel(s) = "low" /\ CalculateConfidenceLevel(s) = "low"
          /\ InlineLevel(s) = CalculateConfidenceLevel(s)
    /\ normalized.raised = "no" /\ delivered.op # "complete_scope_2a_session" =>
          LET s == normalized.f.confidence_score
          IN  /\ s.t \in {"num", "nan"}
              /\ normalized.f.confidence_level = JStr(InlineLevel(s))
              /\ normalized.f.confidence_level = JStr(CalculateConfidenceLevel(s))
              /\ s.t = "num" => ThresholdsOf(InlineLevel, s)
              /\ s = JNaN => normalized.f.confidence_level = JStr("low")

C22_Witness ==
    /\ delivered.op = "generate_summary"
    /\ normalized.raised = "no"
    /\ normalized.f.confidence_score = JNum(120)
    /\ normalized.f.confidence_level = JStr("high")

(* The object the delivered payload stands for: the payload itself, or    *)
(* the object a JSON string encodes; EmptyObj for every other payload.      *)
DeliveredObject ==
    LET p == delivered.payload
    IN  IF IsObj(p) THEN p
        ELSE IF p.t = "jsontext" /\ IsObj(p.of) THEN p.of
        ELSE EmptyObj

(* The operations that compute a score and a level *)
ScoringOps ==
    {"scope_issue", "generate_summary", "complete_scope_session",
     "get_summary_generation_status"}

(* The synthesized record of generate_summary is in place of the payload *)
FallbackApplies ==
    delivered.op = "generate_summary" /\ normalized.f.status = JStr("completed")
        /\ normalized.f.completion_summary = JStr("Successfully completed issue")

(* The first of a, b that the payload has, else the default d *)
FirstPresent(a, b, d) == IF a # JNone THEN a ELSE IF b # JNone THEN b ELSE d

(* C21: in every result record the code produces, confidence_level is the  *)
(* classification of the record's confidence_score; a level reported by the *)
(* agent never takes its place.                                             *)
C21_LevelIsFunctionOfScore ==
    (delivered # NoDelivery /\ normalized.raised = "no") =>
        normalized.f.confidence_level = JStr(InlineLevel(normalized.f.confidence_score))

(* C23: the normalized score is the payload's confidence_score when the    *)
(* payload has one, else its confidence when it has one, else 0.5 (a value  *)
(* that cannot be cast counts as 0.5); confidence_score 0 gives score 0 and *)
(* level low.                                                               *)
C23_ScoreAliasChain ==
    (delivered.op \in ScoringOps /\ normalized.raised = "no" /\ ~FallbackApplies) =>
        LET o == DeliveredObject
        IN  /\ normalized.f.confidence_score =
                  ToFloat(FirstPresent(Get(o, "confidence_score"), Get(o, "confidence"),
                                       JNum(50)))
            /\ Get(o, "confidence_score") = JNum(0) =>
                  normalized.f.confidence_level = JStr("low")

(* C24: a session that ends completed or suspended with no structured      *)
(* output at all makes generate_summary return the synthesized record:      *)
(* generic summary, no files, success true, confidence 0.8, level high.     *)
C24_FallbackWithoutPayload ==
    (delivered.op = "generate_summary" /\ delivered.status \in {"completed", "suspended"}
        /\ delivered.payload \in {JNone, JStr(""), EmptyObj}) =>
        /\ normalized.raised = "no"
        /\ normalized.f.completion_summary = JStr("Successfully completed issue")
        /\ normalized.f.files_modified = JList(<<>>)
        /\ normalized.f.success = JBool(TRUE)
        /\ normalized.f.confidence_score = JNum(80)
        /\ normalized.f.confidence_level = JStr("high")

(* C25: a payload that is a string but no JSON gives a record whose        *)
(* summary holds the original string, with score 0.5 and level medium.      *)
C25_PlainTextIsKept ==
    (delivered.op = "generate_summary" /\ delivered.payload = NonJsonText) =>
        /\ normalized.raised = "no"
        /\ normalized.f.completion_summary = delivered.payload
        /\ normalized.f.confidence_score = JNum(50)
        /\ normalized.f.confidence_level = JStr("medium")

(* C26: whatever payload comes with the terminal status, scope_issue and   *)
(* generate_summary return a record and do not raise.                       *)
C26_NormalizationNeverRaises ==
    delivered.op \in {"scope_issue", "generate_summary"} => normalized.raised = "no"

(* C27: required_skills is the payload's required_skills, else its skills, *)
(* else the empty list, and action_plan is the payload's action_plan, else  *)
(* its plan, else the empty list, in scope and in completion results.       *)
C27_SkillsAndPlanAliases ==
    (delivered.op \in {"scope_issue", "generate_summary"} /\ normalized.raised = "no"
        /\ ~FallbackApplies) =>
        LET o == DeliveredObject
        IN  /\ normalized.f.required_skills =
                  Or(Or(Get(o, "required_skills"), Get(o, "skills")), JList(<<>>))
            /\ normalized.f.action_plan =
                  Or(Or(Get(o, "action_plan"), Get(o, "plan")), JList(<<>>))

(* C28: on every path that builds a completion record from a payload, the  *)
(* summary is the payload's completion_summary, else its summary, else      *)
(* "No summary available".                                                  *)
C28_SummaryAliasChain ==
    (delivered.op \in {"generate_summary", "get_summary_generation_status"}
        /\ normalized.raised = "no" /\ ~FallbackApplies) =>
        LET o == DeliveredObject
        IN  normalized.f.completion_summary =
                Or(Or(Get(o, "completion_summary"), Get(o, "summary")),
                   JStr("No summary available"))

(* What the operation of the latest delivery makes of another payload *)
NormalizeBy(o, payload, status) ==
    CASE o = "scope_issue"                   -> NormalizeScope(payload, status)
      [] o = "generate_summary"              -> NormalizeSummary(payload, status)
      [] o = "complete_scope_session"        -> NormalizeWebScope(payload, status)
      [] o = "get_summary_generation_status" -> NormalizeSummaryStatus(payload, status)
      [] OTHER                               -> NormalizeScopeStep(payload, status)

(* C29: an object delivered as a JSON string gives exactly the record the  *)
(* same object gives when delivered as an object.                           *)
C29_JsonStringSameAsObject ==
    (delivered # NoDelivery /\ delivered.payload.t = "jsontext"
        /\ IsObj(delivered.payload.of)) =>
        normalized = NormalizeBy(delivered.op, delivered.payload.of, delivered.status)

CopiedFields ==
    {"complexity_assessment", "estimated_effort", "required_skills", "action_plan", "risks"}

(* C30: a field the payload has with a non-empty value is in the scope     *)
(* record unchanged, lists in the payload's order; a payload with score     *)
(* 0.85 and effort "3-5 days" gives level high and that effort.             *)
C30_FieldsCopiedUnchanged ==
    (delivered.op = "scope_issue" /\ normalized.raised = "no"
        /\ (IsObj(delivered.payload) \/ delivered.payload.t = "jsontext")) =>
        LET o == DeliveredObject
        IN  /\ \A k \in CopiedFields :
                  ~Falsy(Get(o, k)) => normalized.f[k] = Get(o, k)
            /\ (Get(o, "confidence_score") = JNum(85)
                  /\ Get(o, "estimated_effort") = JStr("3-5 days")) =>
                  /\ normalized.f.confidence_level = JStr("high")
                  /\ normalized.f.estimated_effort = JStr("3-5 days")

C30_Witness ==
    /\ delivered.op = "scope_issue"
    /\ normalized.raised = "no"
    /\ Get(DeliveredObject, "confidence_score") = JNum(85)
    /\ Get(DeliveredObject, "action_plan") = JList(<<"b", "a">>)
    /\ normalized.f.action_plan = JList(<<"b", "a">>)
    /\ normalized.f.estimated_effort = JStr("3-5 days")
    /\ normalized.f.confidence_level = JStr("high")

(* C31: every place that decides whether a session is finished uses the   *)
(* terminal set of wait_for_completion: the PR-creation status handler      *)
(* answers with the finished result, which carries a pull_request_url, for  *)
(* every session whose status is completed, stopped, blocked or suspended.  *)
C31_HandlersUseTerminalSet ==
    (op = "get_pr_creation_status" /\ pc = "done" /\ response.success
        /\ IsTerminal(session.status)) =>
        response.pull_request_url # ""

(* C39: the scope normalization of the web server's background task and  *)
(* DevinClient.scope_issue are the same function of the payload: what      *)
(* scope_issue makes of a delivery is what the background task makes of it. *)
C39_SameScopeNormalization ==
    delivered.op = "scope_issue" =>
        normalized = NormalizeWebScope(delivered.payload, delivered.status)

C34_ClearRemovesExactly ==
    [][cleared' # cleared =>
          LET q     == cleared'
              types == IF q.result_types.given THEN q.result_types.types
                       ELSE {"scope", "complete"}
          IN  /\ \A k \in CacheKeys :
                    cache'[k] = IF q.issue_numbers = {} THEN NoFile
                                ELSE IF k[1] \in q.issue_numbers /\ k[2] \in types
                                THEN NoFile
                                ELSE cache[k]
              /\ q.issue_numbers = {} =>
                    \A k \in CacheKeys : LoadCachedResult(cache', k) = None]_vars

C34_Witness ==
    /\ cleared.issue_numbers = {42}
    /\ ~cleared.result_types.given
    /\ ~cache[<<42, "scope">>].exists
    /\ cache[<<42, "scope_2a">>].exists
    /\ cache[<<123, "scope">>].exists

(* The only caller is outside get_devin_client: it has not called, the    *)
(* call returned None, returned a client, or raised.                        *)
CallerOutside == threads[1].pc \in {"idle", "no_client", "client"}

EnvKeyValues == StartEnvKeys \cup CredentialKeys
ConfigKeyValues == {ConfigKeyOfEnv(env) : env \in StartEnvKeys} \cup CredentialKeys

(* C36: a get_devin_client call that runs without interleaving leaves      *)
(* Config.DEVIN_API_KEY and the DEVIN_API_KEY environment variable as they  *)
(* were before the call, when the client is built, when construction        *)
(* raises and when no client is returned: the values the caller sees        *)
(* outside the call never change.                                           *)
C36_KeyRestoredAfterCall ==
    \A env \in EnvKeyValues, cfg \in ConfigKeyValues :
        [](CallerOutside /\ env_key = env /\ config_key = cfg
            => [](CallerOutside => env_key = env /\ config_key = cfg))

(* A client was built with the configured key in a server started without  *)
(* the variable, and the variable is unset again.                           *)
C36_Witness ==
    /\ threads[1].pc = "client"
    /\ threads[1].api_key = "apk_key"
    /\ threads[1].original_env = NoEnv
    /\ env_key = NoEnv
    /\ config_key = ""

ScopeSessionStarted == \E f \in FlightIds : flights.sessions[f].task = "started"

ScopeResultCached == cache[ScopeKey].exists

(* C35: after a scope request has started an agent session, with a service *)
(* that keeps answering and a session that reaches a terminal status, a     *)
(* scope result for the issue is eventually written to the cache.           *)
C35_ScopeEventuallyCached == ScopeSessionStarted ~> ScopeResultCached

====
